---------------------------- MODULE Spec2Model ----------------------------
(***************************************************************************)
(* Lumina: timeline editing engine (App.tsx, components/Timeline.tsx),    *)
(* keyframe evaluation (App.tsx getInterpolatedValue), the property rows   *)
(* of the sidebar (components/Sidebar.tsx), the assistant round trip       *)
(* (App.tsx handleAIChat with analyzeVideoForCuts), the drags on the       *)
(* monitor overlay (App.tsx handleOverlayMouseDown) and the silence        *)
(* segmenter (detectSilenceAndCut).                                        *)
(*                                                                         *)
(* Times are integers in ticks of 1/TicksPerSecond second (10 ms), so the  *)
(* code's 0.04 s frame floor is 4 ticks, the 0.5 s duplicate offset is 50  *)
(* ticks and the 5 s default clip length is 500 ticks.  Pointer            *)
(* coordinates are pixels; zoomLevel is pixels per second.                 *)
(*                                                                         *)
(* Spec      editing sessions: every handler, at most MaxSteps invocations *)
(* SpecTrim  trimming sessions on an opened project: seek, tools, lock and *)
(*           snap buttons, razor and drags, at most MaxTrimSteps           *)
(* SpecEval  getInterpolatedValue over stored keyframe lists               *)
(* SpecAnim  stopwatch toggles of the sidebar rows, seeks and moves        *)
(* SpecCut   detectSilenceAndCut over run-length coded waveforms           *)
(* SpecSnap  getSnapTime over segment lists, playheads and zoom levels     *)
(* SpecRazor split requests on an edited timeline                          *)
(* SpecChat  editing sessions with assistant requests in flight            *)
(* SpecKeys  keyframe writers: sidebar rows, motion presets and drags on   *)
(*           the monitor overlay                                           *)
(* SpecAuto  editing sessions with assistant requests that cut the video   *)
(* SpecSplit razor cuts of animated segments                               *)
(* SpecToggle stopwatch toggles on titles added during the session         *)
(***************************************************************************)
EXTENDS Integers, Sequences, FiniteSets, TLC

VARIABLES
    layers,           \* state.layers: sequence of segments (App.tsx:437)
    selectedLayerId,  \* state.selectedLayerId (App.tsx:438), NoId for null
    currentTime,      \* state.currentTime, the playhead (App.tsx:435)
    activeTool,       \* state.activeTool (App.tsx:442)
    tracks,           \* Timeline prop tracks: id -> [type, isLocked]
    snappingEnabled,  \* Timeline.tsx:62
    draggingId,       \* Timeline.tsx:66, NoId for null
    dragMode,         \* Timeline.tsx:65, "none" for null
    drag,             \* closure of the window mousemove/mouseup listeners
    contextMenu,      \* Timeline.tsx:61: layerId of the visible menu, NoId if hidden
    last,             \* history: the last handler that ran and its arguments
    steps,            \* history: handler invocations of the session so far
    chat,             \* handleAIChat between its await and its last setState: the state it closed over
    cut,              \* detectSilenceAndCut: its input and its local variables
    overlay,          \* closure of the window listeners of a monitor drag (App.tsx:825-892)
    media             \* state.file (loaded or null) and state.duration (App.tsx:432-434)

vars == <<layers, selectedLayerId, currentTime, activeTool, tracks,
          snappingEnabled, draggingId, dragMode, drag, contextMenu, last, steps,
          chat, cut, overlay, media>>

-----------------------------------------------------------------------------
(* Units and program constants *)

TicksPerSecond == 100
MinFrame == 4              \* 0.04 s
DefaultClipDuration == 500 \* 5 s
DuplicateOffset == 50      \* 0.5 s
SNAP_THRESHOLD_PX == 10
TRACK_HEIGHT == 64
MinClipWidthPx == 4
zoomLevel == 100           \* pixels per second (Timeline prop)

(* Bounds of the model *)

MaxLayers == 3    \* segments on the timeline
MaxClock == 2     \* distinct values Date.now() returns
MaxIdLen == 4     \* components of a segment id (a base id and one suffix)
MaxStart == 60    \* latest start (ticks) a duplicate is placed at
MaxSrcStart == 6  \* largest source offset (ticks) a trim is followed to
MaxSteps == 6     \* handler invocations of one editing session
MaxTrimSteps == 9 \* handler invocations of one trimming session

ClockValues == 1..MaxClock
SeekXs == {0, 2}                \* pixel positions of clicks on the ruler
RazorXs == {2, 30}              \* pixel positions of razor clicks
RawTargets == {-12, 3}          \* raw (unsnapped) times a drag aims at
DragDYs == {-64, 0, 64}         \* vertical pointer deltas of a drag
VideoDurations == {300}         \* duration of an imported video
Tools == {"SELECTION", "RAZOR", "HAND"}
Modes == {"MOVE", "RESIZE_L", "RESIZE_R"}

NoId == <<>>

-----------------------------------------------------------------------------
(* Helpers *)

Max(a, b) == IF a >= b THEN a ELSE b
Min(a, b) == IF a <= b THEN a ELSE b
Abs(a) == IF a >= 0 THEN a ELSE -a

\* Math.round(n / d) for d > 0: rounds half up
Round(n, d) == (2 * n + d) \div (2 * d)

\* pixels -> ticks and ticks -> pixels at the current zoom
PxToTime(px) == (px * TicksPerSecond) \div zoomLevel
TimeToPx(t) == (t * zoomLevel) \div TicksPerSecond

\* Array.prototype.find: the index of the first element with this id, 0 if none
FindIndex(ls, id) ==
    IF \E i \in DOMAIN ls : ls[i].id = id
    THEN CHOOSE i \in DOMAIN ls :
            /\ ls[i].id = id
            /\ \A j \in DOMAIN ls : ls[j].id = id => i <= j
    ELSE 0

\* { ...l, ...updates }
Merge(l, updates) ==
    [f \in DOMAIN l |-> IF f \in DOMAIN updates THEN updates[f] ELSE l[f]]

\* Array.prototype.filter on a sequence
RECURSIVE FilterOutId(_, _)
FilterOutId(ls, id) ==
    IF ls = <<>> THEN <<>>
    ELSE IF Head(ls).id = id THEN FilterOutId(Tail(ls), id)
         ELSE <<Head(ls)>> \o FilterOutId(Tail(ls), id)

\* DEFAULT_TRANSFORM: the fields the property rows and the renderer read
DEFAULT_TRANSFORM == [translateX |-> 0, translateY |-> 0, scale |-> 100, rotateZ |-> 0]

\* opacity is kept in hundredths (100 is the source's 1), the transform fields
\* in the source's units
NewLayer(id, type, track, start, duration) ==
    [id |-> id, type |-> type, track |-> track, start |-> start,
     duration |-> duration, srcStartTime |-> 0, locked |-> FALSE,
     transform |-> DEFAULT_TRANSFORM, opacity |-> 100,
     animations |-> <<>>]

NoDrag ==
    [listening |-> FALSE, id |-> NoId, mode |-> "none", initStart |-> 0,
     initDuration |-> 0, initTrack |-> 0, initSrcStart |-> 0,
     layers |-> <<>>, currentTime |-> 0]

\* no AI chat request is in flight (state.isProcessing false, App.tsx:440)
NoChat ==
    [isProcessing |-> FALSE, layers |-> <<>>, currentTime |-> 0,
     file |-> FALSE, duration |-> 0]

\* no monitor drag is in progress
NoOverlay == [listening |-> FALSE]

\* no video file has been imported (App.tsx:432, 434)
NoMedia == [file |-> FALSE, duration |-> 0]

\* no audio analysis has been started
NoCut ==
    [phase |-> "idle", sampleRate |-> 0, runs |-> <<>>, i |-> 0,
     isSpeaking |-> FALSE, speakStart |-> 0, silenceStart |-> 0, segments |-> <<>>]

\* history record: the handler, the index and id of the clip it was aimed at,
\* the time it was given and what it did
Record(op, index, id, time, done) ==
    [op |-> op, index |-> index, id |-> id, time |-> time, done |-> done]

\* history value left by the handlers no property looks back at
Other == Record("other", 0, NoId, 0, "none")

-----------------------------------------------------------------------------
(* App.tsx: state updates *)

\* updateLayer (App.tsx:738-743)
updateLayer(ls, id, updates) ==
    [i \in DOMAIN ls |-> IF ls[i].id = id THEN Merge(ls[i], updates) ELSE ls[i]]

\* handleDeleteLayer (App.tsx:619-624): the layers it leaves
handleDeleteLayer(ls, targetId) == FilterOutId(ls, targetId)

\* handleRazor (App.tsx:718-734): the second part it creates
SecondPart(layerToSplit, time, now) ==
    LET splitRelative == time - layerToSplit.start
    IN  [layerToSplit EXCEPT
            !.id = layerToSplit.id \o <<"split", now>>,
            !.start = time,
            !.duration = layerToSplit.duration - splitRelative]

\* a split guard that looks for the id only, not at the span
RazorAppliesAnywhere(ls, time, layerId) == FindIndex(ls, layerId) # 0

\* handleRazor (App.tsx:718-734): TRUE when the split is carried out
RazorApplies(ls, time, layerId) ==
    LET k == FindIndex(ls, layerId)
    IN  /\ k # 0
        /\ ~ (time <= ls[k].start \/ time >= ls[k].start + ls[k].duration)

\* handleRazor (App.tsx:718-734): the layers it leaves
handleRazor(ls, time, layerId, now) ==
    IF ~ RazorApplies(ls, time, layerId) THEN ls
    ELSE LET layerToSplit == ls[FindIndex(ls, layerId)]
             splitRelative == time - layerToSplit.start
             firstPart == [layerToSplit EXCEPT !.duration = splitRelative]
         IN  [i \in DOMAIN ls |-> IF ls[i].id = layerId THEN firstPart ELSE ls[i]]
                \o <<SecondPart(layerToSplit, time, now)>>

\* handleDuplicateLayer (App.tsx:626-645): the copy it creates
DuplicateOf(original, newTime, newTrack, now) ==
    [original EXCEPT
        !.id = original.id \o <<"copy", now>>,
        !.start = newTime,
        !.track = newTrack]


-----------------------------------------------------------------------------
(* Timeline.tsx: snapping *)

\* getSnapTime (Timeline.tsx:109-123): the layers.forEach loop; acc is
\* <<closestTime, minDist>>
RECURSIVE SnapScan(_, _, _, _)
SnapScan(ls, targetTime, ignoreLayerId, acc) ==
    IF ls = <<>> THEN acc
    ELSE LET l == Head(ls)
             afterStart ==
                 IF Abs(targetTime - l.start) < acc[2]
                 THEN <<l.start, Abs(targetTime - l.start)>>
                 ELSE acc
             end == l.start + l.duration
             afterEnd ==
                 IF Abs(targetTime - end) < afterStart[2]
                 THEN <<end, Abs(targetTime - end)>>
                 ELSE afterStart
         IN  IF l.id = ignoreLayerId
             THEN SnapScan(Tail(ls), targetTime, ignoreLayerId, acc)
             ELSE SnapScan(Tail(ls), targetTime, ignoreLayerId, afterEnd)

\* getSnapTime (Timeline.tsx:94-126) over the layers and playhead of the
\* render whose closure calls it
getSnapTimeAtZoom(targetTime, ignoreLayerId, ls, playhead, snapping, zoom) ==
    IF ~ snapping THEN targetTime
    ELSE LET thresholdSeconds == (SNAP_THRESHOLD_PX * TicksPerSecond) \div zoom
             afterPlayhead ==
                 IF Abs(targetTime - playhead) < thresholdSeconds
                 THEN <<playhead, Abs(targetTime - playhead)>>
                 ELSE <<targetTime, thresholdSeconds>>
         IN  SnapScan(ls, targetTime, ignoreLayerId, afterPlayhead)[1]

\* getSnapTime at the zoomLevel of the sessions (Timeline.tsx:39)
getSnapTime(targetTime, ignoreLayerId, ls, playhead, snapping) ==
    getSnapTimeAtZoom(targetTime, ignoreLayerId, ls, playhead, snapping, zoomLevel)

-----------------------------------------------------------------------------
(* Timeline.tsx: the drag gesture, handleMouseMove (185-239) *)

\* MOVE branch (Timeline.tsx:191-210): the updates passed to onUpdateLayer
MoveUpdates(d, dt, dy, trackIds, snapping) ==
    LET snapped == getSnapTime(d.initStart + dt, d.id, d.layers, d.currentTime, snapping)
        newStartTime == Max(0, snapped)
        dTrack == Round(-dy, TRACK_HEIGHT)
        proposedTrack == d.initTrack + dTrack
        newTrack == IF proposedTrack \in trackIds THEN proposedTrack ELSE d.initTrack
    IN  [start |-> newStartTime, track |-> newTrack]

\* RESIZE_L branch (Timeline.tsx:213-217): the new start after snap and clamps
ResizeLeftStart(d, dt, snapping) ==
    LET snapped == getSnapTime(d.initStart + dt, d.id, d.layers, d.currentTime, snapping)
        nonNeg == IF snapped < 0 THEN 0 ELSE snapped
        endTime == d.initStart + d.initDuration
    IN  IF nonNeg > endTime - MinFrame THEN endTime - MinFrame ELSE nonNeg

\* a left trim that forgets to shift the source offset with the left edge
ResizeLeftUpdatesKeepSrc(d, newStart) ==
    [start |-> newStart,
     duration |-> d.initDuration - (newStart - d.initStart),
     srcStartTime |-> d.initSrcStart]

\* RESIZE_L branch (Timeline.tsx:219-229): the updates passed to onUpdateLayer
ResizeLeftUpdates(d, newStart) ==
    LET deltaStart == newStart - d.initStart
    IN  [start |-> newStart,
         duration |-> d.initDuration - deltaStart,
         srcStartTime |-> d.initSrcStart + deltaStart]

\* a left trim that is never refused
ResizeLeftNeverRefused(d, newStart) == FALSE

\* RESIZE_L branch (Timeline.tsx:223): if (newSrcStart < 0) return
ResizeLeftRefused(d, newStart) ==
    d.initSrcStart + (newStart - d.initStart) < 0

\* a right trim without the floor on the new duration
ResizeRightUpdatesUnclamped(d, dt, snapping) ==
    LET currentEnd == d.initStart + (d.initDuration + dt)
        snappedEnd == getSnapTime(currentEnd, d.id, d.layers, d.currentTime, snapping)
    IN  [duration |-> snappedEnd - d.initStart]

\* RESIZE_R branch (Timeline.tsx:231-238): the updates passed to onUpdateLayer
ResizeRightUpdates(d, dt, snapping) ==
    LET currentEnd == d.initStart + (d.initDuration + dt)
        snappedEnd == getSnapTime(currentEnd, d.id, d.layers, d.currentTime, snapping)
        newDuration == snappedEnd - d.initStart
    IN  [duration |-> IF newDuration < MinFrame THEN MinFrame ELSE newDuration]

\* a pointer-move that works from the segment as the previous event left it
\* instead of the values captured at mouse-down
handleMouseMoveIncremental(ls, d, dt, dy, trackIds, snapping) ==
    LET k == FindIndex(ls, d.id)
        now == IF k = 0 THEN d
               ELSE [d EXCEPT !.initStart = ls[k].start, !.initDuration = ls[k].duration,
                              !.initTrack = ls[k].track,
                              !.initSrcStart = ls[k].srcStartTime]
    IN  IF d.mode = "MOVE"
        THEN updateLayer(ls, d.id, MoveUpdates(now, dt, dy, trackIds, snapping))
        ELSE IF d.mode = "RESIZE_L"
        THEN LET newStart == ResizeLeftStart(now, dt, snapping)
             IN  IF ResizeLeftRefused(now, newStart) THEN ls
                 ELSE updateLayer(ls, d.id, ResizeLeftUpdates(now, newStart))
        ELSE updateLayer(ls, d.id, ResizeRightUpdates(now, dt, snapping))

\* handleMouseMove (Timeline.tsx:185-239): the layers after one pointer-move
handleMouseMove(ls, d, dt, dy, trackIds, snapping) ==
    IF d.mode = "MOVE"
    THEN updateLayer(ls, d.id, MoveUpdates(d, dt, dy, trackIds, snapping))
    ELSE IF d.mode = "RESIZE_L"
    THEN LET newStart == ResizeLeftStart(d, dt, snapping)
         IN  IF ResizeLeftRefused(d, newStart) THEN ls
             ELSE updateLayer(ls, d.id, ResizeLeftUpdates(d, newStart))
    ELSE updateLayer(ls, d.id, ResizeRightUpdates(d, dt, snapping))

-----------------------------------------------------------------------------
(* Initial state *)

\* the tracks the Timeline is given: three video tracks, none locked
InitTracks == [t \in {0, 1, 2} |-> [type |-> "video", isLocked |-> FALSE]]

Init ==
    /\ layers = <<>>
    /\ selectedLayerId = NoId
    /\ currentTime = 0
    /\ activeTool = "SELECTION"
    /\ tracks = InitTracks
    /\ snappingEnabled = TRUE
    /\ draggingId = NoId
    /\ dragMode = "none"
    /\ drag = NoDrag
    /\ contextMenu = NoId
    /\ last = Other
    /\ steps = 0
    /\ chat = NoChat
    /\ cut = NoCut
    /\ overlay = NoOverlay
    /\ media = NoMedia

\* one more handler invocation of a session of at most budget invocations
Step(budget) == steps < budget /\ steps' = steps + 1

\* the pointer is free: no button is held down by a drag gesture
PointerFree == ~ drag.listening /\ ~ overlay.listening

TimelineUnchanged == UNCHANGED <<tracks, snappingEnabled, draggingId, dragMode, drag>>

-----------------------------------------------------------------------------
(* App.tsx: creating segments *)

\* handleImport, video branch (App.tsx:671-692)
ImportVideo(now, dur) ==
    /\ PointerFree
    /\ Len(layers) < MaxLayers
    /\ layers' = Append(layers, NewLayer(<<"layer", now>>, "video", 0, currentTime, dur))
    /\ media' = [file |-> TRUE, duration |-> Max(media.duration, dur)]
    /\ contextMenu' = NoId
    /\ last' = Other
    /\ UNCHANGED <<selectedLayerId, currentTime, activeTool>>
    /\ TimelineUnchanged
    /\ UNCHANGED <<chat, cut, overlay>>

\* handleImport, image branch (App.tsx:693-702)
ImportImage(now) ==
    /\ PointerFree
    /\ Len(layers) < MaxLayers
    /\ layers' = Append(layers,
                    NewLayer(<<"layer", now>>, "image", 1, currentTime, DefaultClipDuration))
    /\ selectedLayerId' = <<"layer", now>>
    /\ contextMenu' = NoId
    /\ last' = Other
    /\ UNCHANGED <<currentTime, activeTool>>
    /\ TimelineUnchanged
    /\ UNCHANGED <<chat, cut, overlay, media>>

\* handleAddText (App.tsx:706-716)
AddText(now) ==
    /\ PointerFree
    /\ Len(layers) < MaxLayers
    /\ layers' = Append(layers,
                    NewLayer(<<"txt", now>>, "text", 2, currentTime, DefaultClipDuration))
    /\ selectedLayerId' = <<"txt", now>>
    /\ contextMenu' = NoId
    /\ last' = Other
    /\ UNCHANGED <<currentTime, activeTool>>
    /\ TimelineUnchanged
    /\ UNCHANGED <<chat, cut, overlay, media>>

-----------------------------------------------------------------------------
(* App.tsx: playhead, tool, delete, project load *)

\* handleTimelineMouseDown (Timeline.tsx:129-138): the time it seeks to
SeekTime(x) == Max(0, PxToTime(x))

\* handleTimelineMouseDown (Timeline.tsx:129-138) and onSeek (App.tsx:1131-1134)
Seek(x) ==
    /\ PointerFree
    /\ draggingId = NoId
    /\ activeTool \in {"SELECTION", "RAZOR"}
    /\ currentTime' = SeekTime(x)
    /\ contextMenu' = NoId
    /\ last' = Other
    /\ UNCHANGED <<layers, selectedLayerId, activeTool>>
    /\ TimelineUnchanged
    /\ UNCHANGED <<chat, cut, overlay, media>>

\* keyboard shortcuts v / c / ... (App.tsx:525-530), ToolsBar setTool (App.tsx:1125)
SetTool(t) ==
    /\ t # activeTool       \* choosing the active tool again changes nothing
    /\ activeTool' = t
    /\ last' = Other
    /\ UNCHANGED <<layers, selectedLayerId, currentTime, contextMenu>>
    /\ TimelineUnchanged
    /\ UNCHANGED <<chat, cut, overlay, media>>

\* keyboard Delete (App.tsx:531-533) -> handleDeleteLayer() (App.tsx:619-624)
DeleteKey ==
    /\ selectedLayerId # NoId
    /\ layers' = handleDeleteLayer(layers, selectedLayerId)
    /\ selectedLayerId' = NoId
    /\ last' = Other
    /\ UNCHANGED <<currentTime, activeTool, contextMenu>>
    /\ TimelineUnchanged
    /\ UNCHANGED <<chat, cut, overlay, media>>

\* project files offered to handleLoadProject: timelines saved by earlier
\* sessions (a locked title; a clip trimmed on the left and moved back to 0;
\* a clip with a still placed above it)
ProjectFiles ==
    { <<[NewLayer(<<"txt", 1>>, "text", 2, 0, DefaultClipDuration) EXCEPT !.locked = TRUE]>>,
      <<[NewLayer(<<"layer", 1>>, "video", 0, 0, 300) EXCEPT !.srcStartTime = 3]>>,
      <<NewLayer(<<"layer", 1>>, "video", 0, 0, 300),
        NewLayer(<<"layer", 2>>, "image", 1, 2, DefaultClipDuration)>> }

\* the duration saved with a project file (App.tsx:567): the longest video the
\* saving session had imported, 0 if it had imported none
ProjectDuration(file) ==
    IF \E i \in DOMAIN file : file[i].type = "video" THEN 300 ELSE 0

\* handleLoadProject (App.tsx:583-609)
LoadProject(file) ==
    /\ PointerFree
    /\ Len(file) <= MaxLayers
    /\ layers' = file
    /\ media' = [media EXCEPT !.duration = IF ProjectDuration(file) # 0
                                            THEN ProjectDuration(file)
                                            ELSE media.duration]
    /\ selectedLayerId' = NoId
    /\ contextMenu' = NoId
    /\ last' = Other
    /\ UNCHANGED <<currentTime, activeTool>>
    /\ TimelineUnchanged
    /\ UNCHANGED <<chat, cut, overlay>>

-----------------------------------------------------------------------------
(* Timeline.tsx: header buttons *)

\* snap button (Timeline.tsx:287)
ToggleSnapping ==
    /\ PointerFree
    /\ snappingEnabled' = ~ snappingEnabled
    /\ contextMenu' = NoId
    /\ last' = Other
    /\ UNCHANGED <<layers, selectedLayerId, currentTime, activeTool, tracks,
                   draggingId, dragMode, drag>>
    /\ UNCHANGED <<chat, cut, overlay, media>>

\* lock button (Timeline.tsx:329, 361): onUpdateTrack(id, {isLocked: !isLocked})
ToggleLock(t) ==
    /\ PointerFree
    /\ t \in DOMAIN tracks
    /\ tracks' = [tracks EXCEPT ![t].isLocked = ~ @]
    /\ contextMenu' = NoId
    /\ last' = Other
    /\ UNCHANGED <<layers, selectedLayerId, currentTime, activeTool,
                   snappingEnabled, draggingId, dragMode, drag>>
    /\ UNCHANGED <<chat, cut, overlay, media>>

-----------------------------------------------------------------------------
(* Timeline.tsx: mouse-down on a clip *)

\* the clip of layer l is drawn in the lane of its track (Timeline.tsx:426, 486)
Rendered(l) == l.track \in DOMAIN tracks

\* pointer x is inside the clip's box (Timeline.tsx:427-428, 443-445)
InsideClip(l, x) ==
    /\ TimeToPx(l.start) <= x
    /\ x < TimeToPx(l.start) + Max(TimeToPx(l.duration), MinClipWidthPx)

\* the resize handles of layer l are drawn (Timeline.tsx:458)
HandlesShown(l) ==
    /\ tracks[l.track].type = "video"
    /\ selectedLayerId = l.id
    /\ activeTool = "SELECTION"
    /\ ~ tracks[l.track].isLocked

\* a clip whose onMouseDown ignores the lock of its track
TrackGuardAbsent(track) == TRUE

\* the guard of the clip's onMouseDown (Timeline.tsx:440, 493)
TrackGuard(track) == ~ tracks[track].isLocked

\* razor branch of handleLayerMouseDown (Timeline.tsx:149-169): the snapped cut time
CutTime(x) == getSnapTime(PxToTime(x), NoId, layers, currentTime, snappingEnabled)

\* razor branch (Timeline.tsx:165): the guard before onRazor
CutInside(l, cutTime) == cutTime > l.start /\ cutTime < l.start + l.duration

\* selection branch (Timeline.tsx:177-183): the state the listeners close over
Captured(l, mode) ==
    [listening |-> TRUE, id |-> l.id, mode |-> mode, initStart |-> l.start,
     initDuration |-> l.duration, initTrack |-> l.track,
     initSrcStart |-> l.srcStartTime, layers |-> layers, currentTime |-> currentTime]

\* mouse-down on a clip whose track is locked: handleLayerMouseDown is not
\* called, the event bubbles to handleTimelineMouseDown (Timeline.tsx:402)
MouseDownLocked(i, x) ==
    /\ currentTime' = IF activeTool \in {"SELECTION", "RAZOR"} THEN SeekTime(x)
                      ELSE currentTime
    /\ contextMenu' = contextMenu
    /\ last' = Record("mousedown", i, layers[i].id, x, "refused")
    /\ UNCHANGED <<layers, selectedLayerId, activeTool>>
    /\ TimelineUnchanged
    /\ UNCHANGED <<chat, cut, overlay, media>>

\* handleLayerMouseDown, right button (Timeline.tsx:143-146)
MouseDownContext(i) ==
    /\ contextMenu' = layers[i].id
    /\ last' = Record("mousedown", i, layers[i].id, 0, "context")
    /\ UNCHANGED <<layers, selectedLayerId, currentTime, activeTool>>
    /\ TimelineUnchanged
    /\ UNCHANGED <<chat, cut, overlay, media>>

\* handleLayerMouseDown, razor tool (Timeline.tsx:149-169) -> handleRazor
MouseDownRazor(i, x, now) ==
    LET l == layers[i]
        cutTime == CutTime(x)
        applies == CutInside(l, cutTime) /\ RazorApplies(layers, cutTime, l.id)
    IN  /\ applies => Len(layers) < MaxLayers /\ Len(l.id) < MaxIdLen
        /\ layers' = IF CutInside(l, cutTime)
                     THEN handleRazor(layers, cutTime, l.id, now)
                     ELSE layers
        /\ selectedLayerId' = IF applies THEN l.id \o <<"split", now>>
                              ELSE selectedLayerId
        /\ contextMenu' = NoId
        /\ last' = Record("razor", i, l.id, cutTime, IF applies THEN "split" ELSE "none")
        /\ UNCHANGED <<currentTime, activeTool>>
        /\ TimelineUnchanged
    /\ UNCHANGED <<chat, cut, overlay, media>>

\* handleLayerMouseDown, selection tool (Timeline.tsx:172-250)
MouseDownSelect(i, mode) ==
    /\ selectedLayerId' = layers[i].id
    /\ draggingId' = layers[i].id
    /\ dragMode' = mode
    /\ drag' = Captured(layers[i], mode)
    /\ contextMenu' = NoId
    /\ last' = Record("mousedown", i, layers[i].id, 0, mode)
    /\ UNCHANGED <<layers, currentTime, activeTool, tracks, snappingEnabled>>
    /\ UNCHANGED <<chat, cut, overlay, media>>

\* handleLayerMouseDown with any other tool: nothing after stopPropagation
MouseDownOther(i) ==
    /\ contextMenu' = NoId
    /\ last' = Record("mousedown", i, layers[i].id, 0, "none")
    /\ UNCHANGED <<layers, selectedLayerId, currentTime, activeTool>>
    /\ TimelineUnchanged
    /\ UNCHANGED <<chat, cut, overlay, media>>

\* clip onMouseDown (Timeline.tsx:440, 462, 468, 493) -> handleLayerMouseDown
\* (Timeline.tsx:140-251)
LayerMouseDown(i, mode, button, x, now) ==
    /\ PointerFree
    /\ i \in DOMAIN layers
    /\ Rendered(layers[i])
    /\ InsideClip(layers[i], x)
    /\ mode # "MOVE" => HandlesShown(layers[i])
    /\ IF ~ TrackGuard(layers[i].track) THEN MouseDownLocked(i, x)
       ELSE IF button = 2 THEN MouseDownContext(i)
       ELSE IF activeTool = "RAZOR" THEN MouseDownRazor(i, x, now)
       ELSE IF activeTool = "SELECTION" THEN MouseDownSelect(i, mode)
       ELSE MouseDownOther(i)

-----------------------------------------------------------------------------
(* Timeline.tsx: the window listeners of a drag gesture *)

\* the edge a gesture drags: the start for MOVE and RESIZE_L, the end for RESIZE_R
DraggedEdge(d) ==
    IF d.mode = "RESIZE_R" THEN d.initStart + d.initDuration ELSE d.initStart

\* what a pointer-move committed, for the history variable
MoveResult(d, dt) ==
    IF d.mode = "RESIZE_L" /\ ResizeLeftRefused(d, ResizeLeftStart(d, dt, snappingEnabled))
    THEN "refused" ELSE "commit"

\* window mousemove listener: handleMouseMove (Timeline.tsx:185-239)
MouseMove(dx, dy) ==
    LET dt == PxToTime(dx)
    IN  /\ drag.listening
        /\ layers' = handleMouseMove(layers, drag, dt, dy, DOMAIN tracks, snappingEnabled)
        /\ \A i \in DOMAIN layers' : layers'[i].srcStartTime <= MaxSrcStart
        /\ last' = Record("mousemove", 0, drag.id,
                          IF drag.mode = "RESIZE_L"
                          THEN ResizeLeftStart(drag, dt, snappingEnabled)
                          ELSE DraggedEdge(drag) + dt,
                          MoveResult(drag, dt))
        /\ UNCHANGED <<selectedLayerId, currentTime, activeTool, contextMenu>>
        /\ TimelineUnchanged
    /\ UNCHANGED <<chat, cut, overlay, media>>

\* a mouse-up that resets the drag state but leaves the window listeners on
MouseUpListening ==
    /\ drag.listening
    /\ draggingId' = NoId
    /\ dragMode' = "none"
    /\ drag' = drag
    /\ contextMenu' = NoId
    /\ last' = Record("mouseup", 0, drag.id, 0, drag.mode)
    /\ UNCHANGED <<layers, selectedLayerId, currentTime, activeTool, tracks,
                   snappingEnabled>>
    /\ UNCHANGED <<chat, cut, overlay, media>>

\* window mouseup listener: handleMouseUp (Timeline.tsx:241-246)
MouseUp ==
    /\ drag.listening
    /\ draggingId' = NoId
    /\ dragMode' = "none"
    /\ drag' = NoDrag
    /\ contextMenu' = NoId
    /\ last' = Record("mouseup", 0, drag.id, 0, drag.mode)
    /\ UNCHANGED <<layers, selectedLayerId, currentTime, activeTool, tracks,
                   snappingEnabled>>
    /\ UNCHANGED <<chat, cut, overlay, media>>

-----------------------------------------------------------------------------
(* Timeline.tsx: context menu of a clip *)

\* Duplicate (Timeline.tsx:555-563) -> handleDuplicateLayer (App.tsx:626-645)
ContextDuplicate(now) ==
    LET k == FindIndex(layers, contextMenu)
    IN  /\ PointerFree
        /\ contextMenu # NoId
        /\ k # 0 => /\ Len(layers) < MaxLayers
                     /\ Len(contextMenu) < MaxIdLen
                     /\ layers[k].start + DuplicateOffset <= MaxStart
        /\ layers' = IF k = 0 THEN layers
                     ELSE Append(layers,
                            DuplicateOf(layers[k], layers[k].start + DuplicateOffset,
                                        layers[k].track, now))
        /\ selectedLayerId' = IF k = 0 THEN selectedLayerId
                              ELSE contextMenu \o <<"copy", now>>
        /\ contextMenu' = NoId
        /\ last' = Other
        /\ UNCHANGED <<currentTime, activeTool>>
        /\ TimelineUnchanged
    /\ UNCHANGED <<chat, cut, overlay, media>>

\* Delete (Timeline.tsx:567-572) -> handleDeleteLayer(id) (App.tsx:619-624)
ContextDelete ==
    /\ PointerFree
    /\ contextMenu # NoId
    /\ layers' = handleDeleteLayer(layers, contextMenu)
    /\ selectedLayerId' = NoId
    /\ contextMenu' = NoId
    /\ last' = Other
    /\ UNCHANGED <<currentTime, activeTool>>
    /\ TimelineUnchanged
    /\ UNCHANGED <<chat, cut, overlay, media>>

-----------------------------------------------------------------------------
(* The editing session *)

Next ==
    \/ Step(MaxSteps) /\ \E now \in ClockValues, dur \in VideoDurations : ImportVideo(now, dur)
    \/ Step(MaxSteps) /\ \E now \in ClockValues : ImportImage(now)
    \/ Step(MaxSteps) /\ \E now \in ClockValues : AddText(now)
    \/ Step(MaxSteps) /\ \E x \in SeekXs : Seek(x)
    \/ Step(MaxSteps) /\ \E t \in Tools : SetTool(t)
    \/ Step(MaxSteps) /\ DeleteKey
    \/ Step(MaxSteps) /\ \E file \in ProjectFiles : LoadProject(file)
    \/ Step(MaxSteps) /\ ToggleSnapping
    \/ Step(MaxSteps) /\ \E t \in DOMAIN tracks : ToggleLock(t)
    \/ Step(MaxSteps) /\ \E i \in 1..MaxLayers, mode \in Modes, button \in {0, 2},
                             x \in SeekXs \cup RazorXs, now \in ClockValues :
                                LayerMouseDown(i, mode, button, x, now)
    \/ Step(MaxSteps) /\ \E target \in RawTargets, dy \in DragDYs :
                                MouseMove(TimeToPx(target - DraggedEdge(drag)), dy)
    \/ Step(MaxSteps) /\ MouseUp
    \/ Step(MaxSteps) /\ \E now \in ClockValues : ContextDuplicate(now)
    \/ Step(MaxSteps) /\ ContextDelete

Spec == Init /\ [][Next]_vars

\* a trimming session: a saved project is opened, its clips are cut and dragged,
\* tracks are locked and snapping is switched
NextTrim ==
    \/ Step(MaxTrimSteps) /\ \E file \in ProjectFiles : LoadProject(file)
    \/ Step(MaxTrimSteps) /\ \E x \in SeekXs : Seek(x)
    \/ Step(MaxTrimSteps) /\ \E t \in Tools : SetTool(t)
    \/ Step(MaxTrimSteps) /\ \E i \in 1..MaxLayers, mode \in Modes,
                                 x \in SeekXs \cup RazorXs, now \in ClockValues :
                                    LayerMouseDown(i, mode, 0, x, now)
    \/ Step(MaxTrimSteps) /\ \E target \in RawTargets, dy \in DragDYs :
                                    MouseMove(TimeToPx(target - DraggedEdge(drag)), dy)
    \/ Step(MaxTrimSteps) /\ MouseUp
    \/ Step(MaxTrimSteps) /\ ToggleSnapping
    \/ Step(MaxTrimSteps) /\ \E t \in DOMAIN tracks : ToggleLock(t)

SpecTrim == Init /\ [][NextTrim]_vars

-----------------------------------------------------------------------------
(* Properties of the timeline *)

\* two segments share a track and their spans [start, start+duration) intersect
Overlap(a, b) ==
    /\ a.track = b.track
    /\ a.start < b.start + b.duration
    /\ b.start < a.start + a.duration

\* the step is a razor click that carried out a split
SplitStep ==
    /\ steps' = steps + 1
    /\ last'.op = "razor"
    /\ last'.done = "split"

(* C1: in every reachable state no two distinct segments on the same track *)
(* overlap in [start, start+duration).                                      *)
C1_NoOverlapOnTrack ==
    \A i, j \in DOMAIN layers : i # j => ~ Overlap(layers[i], layers[j])

(* C2: a split of segment S at time t strictly inside its span leaves the   *)
(* original-id segment with start = S.start and duration = t - S.start,     *)
(* adds exactly one new segment with start = t and duration                 *)
(* S.duration - (t - S.start), and leaves every other segment unchanged.    *)
C2_SplitSpans ==
    [][SplitStep =>
        LET k == FindIndex(layers, last'.id)
            S == layers[k]
            t == last'.time
            n == Len(layers')
        IN  /\ n = Len(layers) + 1
            /\ layers'[k].id = S.id
            /\ layers'[k].start = S.start
            /\ layers'[k].duration = t - S.start
            /\ layers'[n].start = t
            /\ layers'[n].duration = S.duration - (t - S.start)
            /\ \A j \in DOMAIN layers : j # k => layers'[j] = layers[j]]_vars

(* C3: after a split of segment S at time t strictly inside its span the    *)
(* new segment's srcStartTime equals S.srcStartTime + (t - S.start) and the *)
(* first part keeps S.srcStartTime.                                         *)
C3_SplitSourceContiguous ==
    [][SplitStep =>
        LET k == FindIndex(layers, last'.id)
            S == layers[k]
            t == last'.time
        IN  /\ layers'[Len(layers')].srcStartTime = S.srcStartTime + (t - S.start)
            /\ layers'[k].srcStartTime = S.srcStartTime]_vars

\* the step is a pointer-move of a left-edge resize gesture
ResizeLeftStep ==
    /\ steps' = steps + 1
    /\ last'.op = "mousemove"
    /\ drag.mode = "RESIZE_L"

\* segment l is the segment captured by gesture d with its left edge at t:
\* the right edge and the difference srcStartTime - start are those captured
TrimPreserved(l, d, t) ==
    /\ l.start = t
    /\ l.duration + (t - d.initStart) = d.initDuration
    /\ l.srcStartTime = d.initSrcStart + (t - d.initStart)

(* C4, as stated: for any target t in [0, start_old + duration_old -        *)
(* MinFrame], after a left-edge resize to t the segment satisfies           *)
(* duration_new + (t - start_old) = duration_old and srcStartTime_new =     *)
(* srcStartTime_old + (t - start_old).                                      *)
C4_TrimAnyTarget ==
    [][ResizeLeftStep =>
        LET t == last'.time
        IN  (0 <= t /\ t <= drag.initStart + drag.initDuration - MinFrame) =>
                \A i \in DOMAIN layers' :
                    layers'[i].id = drag.id => TrimPreserved(layers'[i], drag, t)]_vars

(* C4, amended: a left-edge resize to the snapped and clamped target t      *)
(* either commits, and then the segment has start = t with its right edge   *)
(* and srcStartTime - start as captured at mouse-down, or, when the new     *)
(* srcStartTime would be negative, is refused and leaves every segment      *)
(* unchanged.                                                               *)
C4_TrimCommitsOrRefuses ==
    [][ResizeLeftStep =>
        LET t == last'.time
        IN  IF drag.initSrcStart + (t - drag.initStart) < 0
            THEN layers' = layers
            ELSE \A i \in DOMAIN layers' :
                    layers'[i].id = drag.id => TrimPreserved(layers'[i], drag, t)]_vars

\* a left-edge resize has just moved the left edge of a segment still on the timeline
C4_Witness ==
    /\ last.op = "mousemove"
    /\ drag.mode = "RESIZE_L"
    /\ last.done = "commit"
    /\ last.time # drag.initStart
    /\ \E i \in DOMAIN layers : layers[i].id = drag.id /\ layers[i].start = last.time

(* C5: every segment has start >= 0 in every reachable state.               *)
C5_StartNonNegative ==
    \A i \in DOMAIN layers : layers[i].start >= 0

(* C6: segment ids are pairwise distinct in every reachable state.          *)
C6_IdsDistinct ==
    \A i, j \in DOMAIN layers : i # j => layers[i].id # layers[j].id

\* the step is a mouse-down on a clip whose track is locked
LockedMouseDownStep ==
    /\ steps' = steps + 1
    /\ last'.op \in {"mousedown", "razor"}
    /\ tracks[layers[last'.index].track].isLocked

(* C7: a mouse-down on a segment whose track is locked starts no gesture    *)
(* and leaves the segment list unchanged.                                   *)
C7_LockedTrackRefuses ==
    [][LockedMouseDownStep =>
        /\ layers' = layers
        /\ drag' = drag
        /\ draggingId' = draggingId
        /\ dragMode' = dragMode]_vars

\* the razor tool has just been pressed on a clip of a locked track
C7_Witness ==
    /\ last.op = "mousedown"
    /\ last.done = "refused"
    /\ activeTool = "RAZOR"
    /\ last.index \in DOMAIN layers
    /\ tracks[layers[last.index].track].isLocked

(* C8: after every pointer-move of a Move drag the dragged segment is not   *)
(* on a locked track other than the one it started on.                      *)
C8_MoveAvoidsLockedTrack ==
    (last.op = "mousemove" /\ drag.mode = "MOVE") =>
        \A i \in DOMAIN layers :
            (layers[i].id = drag.id /\ tracks[layers[i].track].isLocked)
                => layers[i].track = drag.initTrack

\* the step is a pointer-move of a drag of the segment, or a razor click on it
GestureStep ==
    /\ steps' = steps + 1
    /\ last'.op \in {"mousemove", "razor"}

(* C9: a segment whose locked flag is true is left unchanged by a move      *)
(* drag, a resize drag and a razor click on it.                             *)
C9_LockedSegmentUnchanged ==
    [][GestureStep =>
        \A i \in DOMAIN layers :
            (layers[i].locked /\ layers[i].id = last'.id) =>
                (i \in DOMAIN layers' /\ layers'[i] = layers[i])]_vars

-----------------------------------------------------------------------------
(* App.tsx: keyframe evaluation.  Values and times are integers; the value  *)
(* returned is an exact fraction <<numerator, denominator>>.                *)

MaxKeys == 3        \* keyframes stored on the evaluated segment
MaxKeyTime == 4     \* latest keyframe time (ticks, relative to the segment start)
MaxQueryTime == 6   \* latest playhead position queried

Properties == {"opacity", "transform.scale"}
EasingTypes == {"linear", "easeIn", "easeOut", "bezier", "step"}
KeyTimes == {t \in 0..MaxKeyTime : t % 2 = 0}
KeyValues == {10, 30}
BaseValues == {100}
EvalStarts == {1}   \* start of the evaluated segment
QueryTimes == 0..MaxQueryTime

\* the keyframes the stored lists are drawn from
KeyframeChoices ==
    [property : Properties, value : KeyValues, time : KeyTimes, easing : {"linear"}]
        \cup [property : {"opacity"}, value : {30}, time : {2},
              easing : EasingTypes \ {"linear"}]

\* the stored lists: any order, equal times allowed
KeyframeLists == UNION {[1..n -> KeyframeChoices] : n \in 0..MaxKeys}

FracEq(a, b) == a[1] * b[2] = b[1] * a[2]

\* layer.animations.filter(k => k.property === propertyPath) (App.tsx:462-463)
RECURSIVE FilterByProperty(_, _)
FilterByProperty(ks, propertyPath) ==
    IF ks = <<>> THEN <<>>
    ELSE IF Head(ks).property = propertyPath
         THEN <<Head(ks)>> \o FilterByProperty(Tail(ks), propertyPath)
         ELSE FilterByProperty(Tail(ks), propertyPath)

\* one insertion of the stable sort: k goes after every element whose time is <= its own
RECURSIVE InsertByTime(_, _)
InsertByTime(sorted, k) ==
    IF sorted = <<>> THEN <<k>>
    ELSE IF Head(sorted).time <= k.time
         THEN <<Head(sorted)>> \o InsertByTime(Tail(sorted), k)
         ELSE <<k>> \o sorted

\* a sort that leaves the keyframes in their stored order
SortByTimeSkipped(ks) == ks

\* .sort((a, b) => a.time - b.time) (App.tsx:464), a stable sort
RECURSIVE SortByTime(_)
SortByTime(ks) ==
    IF ks = <<>> THEN <<>>
    ELSE InsertByTime(SortByTime(SubSeq(ks, 1, Len(ks) - 1)), ks[Len(ks)])

\* an easing switch in which every case leaves the ratio linear
EasedIdentity(n, d, easing) == <<n, d>>

\* the easing switch (App.tsx:485-504) applied to the ratio n / d
Eased(n, d, easing) ==
    IF easing = "easeOut" THEN <<d * d * d - (d - n) * (d - n) * (d - n), d * d * d>>
    ELSE IF easing = "easeIn" THEN <<n * n * n, d * d * d>>
    ELSE IF easing = "bezier"
         THEN IF 2 * n < d THEN <<2 * n * n, d * d>>
              ELSE <<2 * d * d - (2 * d - 2 * n) * (2 * d - 2 * n), 2 * d * d>>
    ELSE IF easing = "step" THEN <<0, 1>>
    ELSE <<n, d>>

\* getInterpolatedValue (App.tsx:459-508) with the playhead at currentTime
getInterpolatedValue(layer, propertyPath, defaultValue, playhead) ==
    LET keyframes == SortByTime(FilterByProperty(layer.animations, propertyPath))
        localTime == playhead - layer.start
    IN  IF Len(keyframes) = 0 THEN <<defaultValue, 1>>
        ELSE IF localTime <= keyframes[1].time THEN <<keyframes[1].value, 1>>
        ELSE IF localTime >= keyframes[Len(keyframes)].time
             THEN <<keyframes[Len(keyframes)].value, 1>>
        ELSE LET nextIndex == CHOOSE i \in DOMAIN keyframes :
                                /\ keyframes[i].time > localTime
                                /\ \A j \in 1..(i - 1) : ~ (keyframes[j].time > localTime)
                 nextKey == keyframes[nextIndex]
                 prevKey == keyframes[nextIndex - 1]
                 timeRange == nextKey.time - prevKey.time
                 timeProgress == localTime - prevKey.time
                 ratio == Eased(timeProgress, timeRange, nextKey.easing)
             IN  <<prevKey.value * ratio[2] + (nextKey.value - prevKey.value) * ratio[1],
                   ratio[2]>>

\* a render evaluates one property of segment i (App.tsx:459)
Evaluate(i, propertyPath, defaultValue) ==
    /\ i \in DOMAIN layers
    /\ last' = [op |-> "evaluate", index |-> i, property |-> propertyPath,
                defaultValue |-> defaultValue,
                value |-> getInterpolatedValue(layers[i], propertyPath,
                                               defaultValue, currentTime)]
    /\ UNCHANGED <<layers, selectedLayerId, currentTime, activeTool, contextMenu, steps>>
    /\ TimelineUnchanged
    /\ UNCHANGED <<chat, cut, overlay, media>>

\* a segment with any stored keyframe list, the playhead anywhere
InitEval ==
    /\ \E a \in KeyframeLists, s \in EvalStarts :
        layers = <<[NewLayer(<<"layer", 1>>, "video", 0, s, DefaultClipDuration)
                        EXCEPT !.animations = a]>>
    /\ currentTime \in QueryTimes
    /\ selectedLayerId = NoId
    /\ activeTool = "SELECTION"
    /\ tracks = InitTracks
    /\ snappingEnabled = TRUE
    /\ draggingId = NoId
    /\ dragMode = "none"
    /\ drag = NoDrag
    /\ contextMenu = NoId
    /\ last = Other
    /\ steps = 0
    /\ chat = NoChat
    /\ cut = NoCut
    /\ overlay = NoOverlay
    /\ media = NoMedia

NextEval ==
    \E i \in 1..MaxLayers, p \in Properties, b \in BaseValues : Evaluate(i, p, b)

SpecEval == InitEval /\ [][NextEval]_vars

\* the keyframes of the evaluated property stored on the evaluated segment
EvaluatedKeys ==
    {layers[last.index].animations[n] : n \in
        {m \in DOMAIN layers[last.index].animations :
            layers[last.index].animations[m].property = last.property}}

(* C10: with at least one keyframe of the property, evaluation at a local   *)
(* time <= the earliest keyframe time returns the earliest keyframe's       *)
(* value and at a local time >= the latest keyframe time the latest         *)
(* keyframe's value, whatever the stored order; with no keyframe it returns *)
(* the base value.                                                          *)
C10_BoundaryHold ==
    last.op = "evaluate" =>
        LET localTime == currentTime - layers[last.index].start
            ks == EvaluatedKeys
            isFirst(k) == \A o \in ks : k.time <= o.time
            isLast(k) == \A o \in ks : k.time >= o.time
        IN  /\ ks = {} => FracEq(last.value, <<last.defaultValue, 1>>)
            /\ (\E k \in ks : isFirst(k) /\ localTime <= k.time) =>
                    \E k \in ks : isFirst(k) /\ FracEq(last.value, <<k.value, 1>>)
            /\ (\E k \in ks : isLast(k) /\ localTime >= k.time) =>
                    \E k \in ks : isLast(k) /\ FracEq(last.value, <<k.value, 1>>)

\* a property whose later keyframe is stored before its earlier one has been
\* evaluated after its latest keyframe
C10_Witness ==
    /\ last.op = "evaluate"
    /\ \E m, n \in DOMAIN layers[last.index].animations :
        LET a == layers[last.index].animations[m]
            b == layers[last.index].animations[n]
        IN  /\ m < n
            /\ a.property = last.property
            /\ b.property = last.property
            /\ a.time > b.time
            /\ a.value # b.value
            /\ \A k \in EvaluatedKeys : k.time <= a.time
            /\ currentTime - layers[last.index].start > a.time
            /\ FracEq(last.value, <<a.value, 1>>)

\* the stored positions of the keyframes of the evaluated property
EvaluatedIndexes ==
    {m \in DOMAIN layers[last.index].animations :
        layers[last.index].animations[m].property = last.property}

\* the evaluated property has exactly two keyframes, k0 earlier than k1, and
\* the evaluation was at the local time halfway between them
MidpointOf(k0, k1) ==
    /\ last.op = "evaluate"
    /\ Cardinality(EvaluatedIndexes) = 2
    /\ k0 \in EvaluatedKeys
    /\ k1 \in EvaluatedKeys
    /\ k0.time < k1.time
    /\ 2 * (currentTime - layers[last.index].start) = k0.time + k1.time

(* C11 as stated: two keyframes (t0, v0, linear) and (t1, v1, any easing),  *)
(* t0 < t1, on one property; evaluation at t0 + (t1 - t0)/2 returns         *)
(* (v0 + v1)/2.                                                             *)
C11_MidpointFirstLinear ==
    \A k0, k1 \in KeyframeChoices :
        (MidpointOf(k0, k1) /\ k0.easing = "linear") =>
            FracEq(last.value, <<k0.value + k1.value, 2>>)

(* C11 amended: the easing applied is the one of the LATER keyframe.  With  *)
(* two keyframes (t0, v0, any easing) and (t1, v1, e), evaluation at the    *)
(* midpoint returns (v0 + v1)/2 when e is linear (and when e is bezier),    *)
(* v0 + (v1 - v0)/8 for easeIn, v0 + 7(v1 - v0)/8 for easeOut and v0 for    *)
(* step.                                                                    *)
C11_MidpointEasingOfNext ==
    \A k0, k1 \in KeyframeChoices :
        MidpointOf(k0, k1) =>
            LET v0 == k0.value
                v1 == k1.value
            IN  CASE k1.easing \in {"linear", "bezier"} ->
                        FracEq(last.value, <<v0 + v1, 2>>)
                  [] k1.easing = "easeIn" ->
                        FracEq(last.value, <<7 * v0 + v1, 8>>)
                  [] k1.easing = "easeOut" ->
                        FracEq(last.value, <<v0 + 7 * v1, 8>>)
                  [] k1.easing = "step" ->
                        FracEq(last.value, <<v0, 1>>)

\* an eased earlier keyframe and a linear later one with another value,
\* evaluated halfway: the result is the mean of the two values
C11_Witness ==
    \E k0, k1 \in KeyframeChoices :
        /\ MidpointOf(k0, k1)
        /\ k0.easing = "easeIn"
        /\ k1.easing = "linear"
        /\ k0.value # k1.value
        /\ FracEq(last.value, <<k0.value + k1.value, 2>>)

-----------------------------------------------------------------------------
(* Sidebar.tsx: effect controls, keyframe writes *)

MaxAnimSteps == 5       \* handler invocations in one animation session

\* the property rows that offer the animation toggle (Sidebar.tsx:470-505)
PropertyRows ==
    {"transform.translateX", "transform.translateY", "transform.scale",
     "transform.rotateZ", "opacity", "effects.blur", "effects.wipe"}

\* the static value both the rows (Sidebar.tsx:472-503) and the renderer
\* (App.tsx:907-917) pass as the default of a property
StaticValue(layer, prop) ==
    CASE prop = "transform.translateX" -> layer.transform.translateX
      [] prop = "transform.translateY" -> layer.transform.translateY
      [] prop = "transform.scale" -> layer.transform.scale
      [] prop = "transform.rotateZ" -> layer.transform.rotateZ
      [] prop = "opacity" -> layer.opacity
      [] OTHER -> 0

\* what the renderer evaluates for a property (App.tsx:907-917)
RenderedValue(layer, prop, playhead) ==
    getInterpolatedValue(layer, prop, StaticValue(layer, prop), playhead)

\* getPropertyValue (Sidebar.tsx:54-69): interpolation for display, no easing
getPropertyValue(layer, prop, defaultVal, playhead) ==
    LET keyframes == SortByTime(FilterByProperty(layer.animations, prop))
        localTime == playhead - layer.start
    IN  IF Len(keyframes) = 0 THEN <<defaultVal, 1>>
        ELSE IF localTime <= keyframes[1].time THEN <<keyframes[1].value, 1>>
        ELSE IF localTime >= keyframes[Len(keyframes)].time
             THEN <<keyframes[Len(keyframes)].value, 1>>
        ELSE LET nextIndex == CHOOSE i \in DOMAIN keyframes :
                                /\ keyframes[i].time > localTime
                                /\ \A j \in 1..(i - 1) : ~ (keyframes[j].time > localTime)
                 nextKey == keyframes[nextIndex]
                 prevKey == keyframes[nextIndex - 1]
                 d == nextKey.time - prevKey.time
             IN  <<prevKey.value * d + (nextKey.value - prevKey.value) * (localTime - prevKey.time),
                   d>>

\* the value a row hands to renderPropertyRow: the Opacity row shows percent
\* (Sidebar.tsx:492-494), the other rows the value itself
RowValue(layer, prop, playhead) ==
    LET v == getPropertyValue(layer, prop, StaticValue(layer, prop), playhead)
    IN  IF prop = "opacity" THEN <<v[1] * 100, v[2]>> ELSE v

\* a fraction whose value is a whole number
Whole(f) == f[1] \div f[2]

\* selectedLayer.animations.filter(k => k.property !== propPath) (Sidebar.tsx:102)
RECURSIVE FilterOutProperty(_, _)
FilterOutProperty(ks, propPath) ==
    IF ks = <<>> THEN <<>>
    ELSE IF Head(ks).property # propPath
         THEN <<Head(ks)>> \o FilterOutProperty(Tail(ks), propPath)
         ELSE FilterOutProperty(Tail(ks), propPath)

\* the keyframe toggleAnimation adds when it turns animation on
\* (Sidebar.tsx:106-112), currentValue being the row's value (Sidebar.tsx:198)
InitialKeyframe(sel, propPath, playhead) ==
    [property |-> propPath, time |-> playhead - sel.start,
     value |-> Whole(RowValue(sel, propPath, playhead)), easing |-> "linear"]

\* toggleAnimation (Sidebar.tsx:96-115), clicked on the row of propPath
ToggleAnimation(propPath) ==
    /\ PointerFree
    /\ FindIndex(layers, selectedLayerId) # 0
    /\ LET i == FindIndex(layers, selectedLayerId)
           sel == layers[i]
           hasKeyframes == \E n \in DOMAIN sel.animations :
                                sel.animations[n].property = propPath
       IN  /\ layers' = updateLayer(layers, sel.id,
                [animations |->
                    IF hasKeyframes
                    THEN FilterOutProperty(sel.animations, propPath)
                    ELSE Append(sel.animations,
                                InitialKeyframe(sel, propPath, currentTime))])
           /\ last' = [op |-> "toggleAnimation", index |-> i, property |-> propPath,
                       on |-> ~ hasKeyframes]
    /\ UNCHANGED <<selectedLayerId, currentTime, activeTool, contextMenu>>
    /\ TimelineUnchanged
    /\ UNCHANGED <<chat, cut, overlay, media>>

\* the segments of the animation sessions: a video clip and a title with any
\* of these static values and stored keyframes
AnimOpacities == {50, 100}
AnimTranslations == {0, 40}
AnimKeyframes ==
    { <<>>,
      <<[property |-> "transform.scale", time |-> 0, value |-> 150, easing |-> "linear"]>>,
      <<[property |-> "opacity", time |-> 0, value |-> 30, easing |-> "linear"],
        [property |-> "opacity", time |-> 2, value |-> 10, easing |-> "easeIn"]>> }

InitAnim ==
    /\ \E o \in AnimOpacities, x \in AnimTranslations, a \in AnimKeyframes :
        layers = << NewLayer(<<"layer", 1>>, "video", 0, 0, 300),
                    [NewLayer(<<"txt", 1>>, "text", 2, 2, DefaultClipDuration)
                        EXCEPT !.opacity = o, !.transform.translateX = x,
                               !.animations = a] >>
    /\ currentTime = 0
    /\ selectedLayerId = NoId
    /\ activeTool = "SELECTION"
    /\ tracks = InitTracks
    /\ snappingEnabled = TRUE
    /\ draggingId = NoId
    /\ dragMode = "none"
    /\ drag = NoDrag
    /\ contextMenu = NoId
    /\ last = Other
    /\ steps = 0
    /\ chat = NoChat
    /\ cut = NoCut
    /\ overlay = NoOverlay
    /\ media = NoMedia

NextAnim ==
    \/ Step(MaxAnimSteps) /\ \E x \in SeekXs \cup RazorXs : Seek(x)
    \/ Step(MaxAnimSteps) /\ \E i \in 1..MaxLayers, x \in SeekXs \cup RazorXs :
                                    LayerMouseDown(i, "MOVE", 0, x, 1)
    \/ Step(MaxAnimSteps) /\ MouseUp
    \/ Step(MaxAnimSteps) /\ \E p \in PropertyRows : ToggleAnimation(p)
    \/ \E i \in 1..MaxLayers, p \in PropertyRows : Evaluate(i, p, StaticValue(layers[i], p))

SpecAnim == InitAnim /\ [][NextAnim]_vars

\* the step is a click on the animation toggle of a property without keyframes
ToggleOnStep == last'.op = "toggleAnimation" /\ last'.on

\* the keyframes of a property stored on a segment, by position
KeysOf(layer, prop) ==
    {n \in DOMAIN layer.animations : layer.animations[n].property = prop}

C12_OtherRowsKeepRenderedValue ==
    [][(ToggleOnStep /\ last'.property # "opacity") =>
        LET i == last'.index
            p == last'.property
        IN  /\ Cardinality(KeysOf(layers'[i], p)) = 1
            /\ FracEq(RenderedValue(layers'[i], p, currentTime),
                      RenderedValue(layers[i], p, currentTime))]_vars

-----------------------------------------------------------------------------
(* geminiService: detectSilenceAndCut, the silence segmenter                *)
(* Amplitudes are in thousandths of full scale, times in ticks.             *)

DefaultThreshold == 20      \* threshold = 0.02
DefaultMinSilence == 40     \* minSilenceDuration = 0.4 s
AntiGlitchFloor == 50       \* 0.5 s
WindowTicks == 5            \* 0.05 s
AttackPadding == 10         \* 0.1 s

MaxRuns == 3                \* stretches of constant amplitude in a waveform

Amplitudes == {0, 500}
RunLengths == {3, 5, 30, 60, 100}      \* ticks

\* the decoded waveforms: up to MaxRuns stretches of constant amplitude
Waveforms ==
    UNION {[1..n -> [amp : Amplitudes, len : RunLengths]] : n \in 0..MaxRuns}

\* the waveform of the end-to-end example: loud on 0-1.0 s, silent on
\* 1.0-1.6 s, loud on 1.6-3.0 s
ExampleRuns ==
    << [amp |-> 500, len |-> 100], [amp |-> 0, len |-> 60], [amp |-> 500, len |-> 140] >>

\* the audio analysed: every waveform at 100 Hz, the example at 1000 Hz
AnalysedAudio ==
    {[sampleRate |-> 100, runs |-> w] : w \in Waveforms}
        \cup {[sampleRate |-> 1000, runs |-> ExampleRuns]}

\* rawData.length
RECURSIVE NumSamples(_, _)
NumSamples(runs, sampleRate) ==
    IF runs = <<>> THEN 0
    ELSE (Head(runs).len * sampleRate) \div TicksPerSecond
            + NumSamples(Tail(runs), sampleRate)

\* rawData[k]
RECURSIVE SampleAt(_, _, _)
SampleAt(runs, sampleRate, k) ==
    LET n == (Head(runs).len * sampleRate) \div TicksPerSecond
    IN  IF k < n THEN Head(runs).amp ELSE SampleAt(Tail(runs), sampleRate, k - n)

\* windowSize = Math.floor(sampleRate * 0.05)
WindowSize(sampleRate) == (sampleRate * WindowTicks) \div TicksPerSecond

\* the inner loop: sum of the squares of the samples of the window at i
RECURSIVE SumSquares(_, _, _, _)
SumSquares(runs, sampleRate, i, j) ==
    IF j < WindowSize(sampleRate) /\ i + j < NumSamples(runs, sampleRate)
    THEN LET sample == SampleAt(runs, sampleRate, i + j)
         IN  sample * sample + SumSquares(runs, sampleRate, i, j + 1)
    ELSE 0

\* rms > threshold, with rms = Math.sqrt(sum / windowSize)
SoundDetected(runs, sampleRate, i, threshold) ==
    SumSquares(runs, sampleRate, i, 0) > threshold * threshold * WindowSize(sampleRate)

\* i / sampleRate
SecondsAt(i, sampleRate) == (i * TicksPerSecond) \div sampleRate

\* a span that opens at the window itself, without padding
UnpaddedStart(t) == t

\* speakStart = Math.max(0, i / sampleRate - 0.1)
PaddedStart(t) == Max(0, t - AttackPadding)

\* the segment literal pushed for a span
SpeechSegment(now, n, duration, speakStart) ==
    [NewLayer(<<"seg", now, n>>, "video", 0, 0, duration) EXCEPT !.srcStartTime = speakStart]

\* detectSilenceAndCut up to its loop, called with the default arguments
StartedCut(sampleRate, runs) ==
    [phase |-> "scan", sampleRate |-> sampleRate, runs |-> runs, i |-> 0,
     isSpeaking |-> FALSE, speakStart |-> 0, silenceStart |-> 0, segments |-> <<>>]

\* one iteration of the window loop
ScanWindow(now) ==
    /\ cut.phase = "scan"
    /\ cut.i < NumSamples(cut.runs, cut.sampleRate)
    /\ LET t == SecondsAt(cut.i, cut.sampleRate)
           next == [cut EXCEPT !.i = cut.i + WindowSize(cut.sampleRate)]
       IN  cut' =
            IF SoundDetected(cut.runs, cut.sampleRate, cut.i, DefaultThreshold)
            THEN IF ~ cut.isSpeaking
                 THEN [next EXCEPT !.isSpeaking = TRUE, !.speakStart = PaddedStart(t)]
                 ELSE next
            ELSE IF cut.isSpeaking
                 THEN IF t - cut.silenceStart > DefaultMinSilence
                      THEN LET duration == t - cut.speakStart
                           IN  [next EXCEPT
                                  !.isSpeaking = FALSE,
                                  !.segments =
                                     IF duration > AntiGlitchFloor
                                     THEN Append(cut.segments,
                                            SpeechSegment(now, Len(cut.segments),
                                                          duration, cut.speakStart))
                                     ELSE cut.segments]
                      ELSE next
                 ELSE [next EXCEPT !.silenceStart = t]
    /\ UNCHANGED <<layers, selectedLayerId, currentTime, activeTool, contextMenu,
                   last, steps, chat, overlay, media>>
    /\ TimelineUnchanged

\* after the loop: the open span is closed and the segments are returned
EndOfFile(now) ==
    /\ cut.phase = "scan"
    /\ cut.i >= NumSamples(cut.runs, cut.sampleRate)
    /\ cut' = [cut EXCEPT
                !.phase = "done",
                !.segments =
                    IF cut.isSpeaking
                    THEN Append(cut.segments,
                            SpeechSegment(now, Len(cut.segments),
                                SecondsAt(NumSamples(cut.runs, cut.sampleRate), cut.sampleRate)
                                    - cut.speakStart,
                                cut.speakStart))
                    ELSE cut.segments]
    /\ UNCHANGED <<layers, selectedLayerId, currentTime, activeTool, contextMenu,
                   last, steps, chat, overlay, media>>
    /\ TimelineUnchanged

InitCut ==
    /\ layers = <<>>
    /\ currentTime = 0
    /\ selectedLayerId = NoId
    /\ activeTool = "SELECTION"
    /\ tracks = InitTracks
    /\ snappingEnabled = TRUE
    /\ draggingId = NoId
    /\ dragMode = "none"
    /\ drag = NoDrag
    /\ contextMenu = NoId
    /\ last = Other
    /\ steps = 0
    /\ chat = NoChat
    /\ \E audio \in AnalysedAudio : cut = StartedCut(audio.sampleRate, audio.runs)
    /\ overlay = NoOverlay
    /\ media = NoMedia

\* a layout that leaves every span at the start it was returned with
LayOutUnmoved(segments, at) == segments

\* segments.map with the running currentTime, here at (part_000:263-268)
RECURSIVE LayOut(_, _)
LayOut(segments, at) ==
    IF segments = <<>> THEN <<>>
    ELSE <<[Head(segments) EXCEPT !.start = at]>>
            \o LayOut(Tail(segments), at + Head(segments).duration)

\* analyzeVideoForCuts in remove_silence mode after its await
\* (part_000:261-268): the spans are laid out and returned
LayOutSegments ==
    /\ cut.phase = "done"
    /\ cut' = [cut EXCEPT !.phase = "returned", !.segments = LayOut(cut.segments, 0)]
    /\ last' = [op |-> "layout", spans |-> cut.segments]
    /\ UNCHANGED <<layers, selectedLayerId, currentTime, activeTool, contextMenu,
                   steps, chat, overlay, media>>
    /\ TimelineUnchanged

NextCut ==
    \/ \E now \in ClockValues : ScanWindow(now)
    \/ \E now \in ClockValues : EndOfFile(now)
    \/ LayOutSegments

SpecCut == InitCut /\ [][NextCut]_vars

\* the analysis has returned
CutDone == cut.phase = "done"

\* the input is the end-to-end example: 3 s at 1000 Hz
ExampleWaveform == cut.sampleRate = 1000 /\ cut.runs = ExampleRuns

(* C13 as stated: on the example waveform detectSilenceAndCut returns       *)
(* exactly 2 spans, the first of duration about 1.0 s and the second of     *)
(* duration about 1.4 s ("about": within one 0.05 s analysis window).       *)
C13_ExampleSpansAsStated ==
    (CutDone /\ ExampleWaveform) =>
        /\ Len(cut.segments) = 2
        /\ Abs(cut.segments[1].duration - 100) <= WindowTicks
        /\ Abs(cut.segments[2].duration - 140) <= WindowTicks

(* C13 amended: on the example waveform detectSilenceAndCut returns exactly *)
(* 2 spans: the first starts at source time 0 (the pre-roll is clamped at   *)
(* 0) and lasts 1.0 s; the second starts at source time 1.5 s (0.1 s        *)
(* pre-roll before 1.6 s) and lasts 1.5 s, up to the end of the input.      *)
C13_ExampleSpans ==
    (CutDone /\ ExampleWaveform) =>
        /\ Len(cut.segments) = 2
        /\ cut.segments[1].srcStartTime = 0
        /\ cut.segments[1].duration = 100
        /\ cut.segments[2].srcStartTime = 150
        /\ cut.segments[2].duration = 150

\* the analysis of the example waveform has returned its two spans
C13_Witness == CutDone /\ ExampleWaveform /\ Len(cut.segments) = 2

(* C14: a single 0.3 s stretch of above-threshold audio with silence before *)
(* it and after it produces zero output segments.                           *)
C14_BlipDiscarded ==
    (/\ CutDone
     /\ Len(cut.runs) = 3
     /\ cut.runs[1].amp = 0
     /\ cut.runs[2] = [amp |-> 500, len |-> 30]
     /\ cut.runs[3].amp = 0) => cut.segments = <<>>

\* the window at sample i is quiet
Quiet(i) == ~ SoundDetected(cut.runs, cut.sampleRate, i, DefaultThreshold)

\* the first sample of the quiet stretch the window at i belongs to
RECURSIVE SilenceBegan(_)
SilenceBegan(i) ==
    IF i >= WindowSize(cut.sampleRate) /\ Quiet(i - WindowSize(cut.sampleRate))
    THEN SilenceBegan(i - WindowSize(cut.sampleRate))
    ELSE i

\* a quiet window is scanned while a speech span is open, and closes it
QuietWindowClosesSpan ==
    /\ cut.phase = "scan"
    /\ cut'.i > cut.i
    /\ cut.isSpeaking
    /\ Quiet(cut.i)
    /\ ~ cut'.isSpeaking

(* C18: while a speech span is open, a quiet window closes the span only if *)
(* the time elapsed since that silence began exceeds minSilenceDuration; a  *)
(* shorter quiet stretch inside ongoing speech keeps the span open,         *)
(* however long the speech before the dip has lasted.  The elapsed time is  *)
(* taken up to the end of the closing window, the longest reading.          *)
C18_DipKeepsSpanOpen ==
    [][QuietWindowClosesSpan =>
        SecondsAt(cut.i + WindowSize(cut.sampleRate), cut.sampleRate)
            - SecondsAt(SilenceBegan(cut.i), cut.sampleRate) > DefaultMinSilence]_vars

(* C19: no span shorter than 0.5 s appears in the output, whether it was    *)
(* closed by a silence gap or at the end of the input.                      *)
C19_NoShortSpan ==
    \A n \in DOMAIN cut.segments : cut.segments[n].duration >= AntiGlitchFloor

\* the same floor for the spans closed by a silence gap
C19_NoShortSpanBeforeEnd ==
    cut.phase = "scan" =>
        \A n \in DOMAIN cut.segments : cut.segments[n].duration > AntiGlitchFloor

(* C25: the spans the segmenter returns are in increasing source-time order *)
(* and pairwise disjoint in source time: each span ends at or before the    *)
(* source start of the next one, pre-roll included.                         *)
C25_SpansDisjoint ==
    \A n \in 1..(Len(cut.segments) - 1) :
        cut.segments[n].srcStartTime + cut.segments[n].duration
            <= cut.segments[n + 1].srcStartTime

\* the spans are in strictly increasing order of source start
C25_SpansOrdered ==
    \A n \in 1..(Len(cut.segments) - 1) :
        cut.segments[n].srcStartTime < cut.segments[n + 1].srcStartTime

\* the sum of the durations of the first n spans
RECURSIVE SumDurations(_, _)
SumDurations(spans, n) ==
    IF n = 0 THEN 0 ELSE SumDurations(spans, n - 1) + spans[n].duration

(* C29: in remove-silence mode analyzeVideoForCuts lays the kept spans out  *)
(* in their original order: the first segment starts at 0 and segment i at  *)
(* the sum of the durations of the segments before it, so the segments are  *)
(* contiguous on track 0, and each keeps its duration and srcStartTime.     *)
C29_SequentialLayout ==
    cut.phase = "returned" =>
        /\ Len(cut.segments) = Len(last.spans)
        /\ \A n \in DOMAIN cut.segments :
                /\ cut.segments[n].start = SumDurations(last.spans, n - 1)
                /\ cut.segments[n].track = 0
                /\ cut.segments[n].id = last.spans[n].id
                /\ cut.segments[n].duration = last.spans[n].duration
                /\ cut.segments[n].srcStartTime = last.spans[n].srcStartTime
        /\ \A n \in 1..(Len(cut.segments) - 1) :
                cut.segments[n].start + cut.segments[n].duration = cut.segments[n + 1].start

\* two spans have been returned and the second starts where the first ends,
\* earlier than its place in the source
C29_Witness ==
    /\ cut.phase = "returned"
    /\ Len(cut.segments) >= 2
    /\ cut.segments[2].start = cut.segments[1].duration
    /\ cut.segments[2].start < cut.segments[2].srcStartTime

-----------------------------------------------------------------------------
(* Timeline.tsx: getSnapTime as a function of its inputs *)

MaxSnapLayers == 2      \* segments on the timeline getSnapTime scans

SnapZooms == {50, 100}                  \* zoomLevel prop, pixels per second
SnapPlayheads == {500, 510}
SnapTargets == {505, 515, 520, 530}
SnapStarts == {495, 510, 525}
SnapDurations == {5, 30}
SnapIds == {<<"layer", 1>>, <<"layer", 2>>}

\* the segments getSnapTime scans
SnapLayers ==
    UNION {[1..n -> {NewLayer(id, "video", 0, s, d) :
                        id \in SnapIds, s \in SnapStarts, d \in SnapDurations}]
            : n \in 0..MaxSnapLayers}

\* a drag or razor handler calls getSnapTime(target, ignore) at a zoom level;
\* k is the dragged segment, 0 when the call passes no ignoreLayerId
Snap(target, k, zoom) ==
    /\ k \in 0..Len(layers)
    /\ last' = [op |-> "snap", target |-> target, index |-> k, zoom |-> zoom,
                value |-> getSnapTimeAtZoom(target, IF k = 0 THEN NoId ELSE layers[k].id,
                                            layers, currentTime, snappingEnabled, zoom)]
    /\ UNCHANGED <<layers, selectedLayerId, currentTime, activeTool, contextMenu,
                   steps, chat, cut, overlay, media>>
    /\ TimelineUnchanged

InitSnap ==
    /\ layers \in SnapLayers
    /\ currentTime \in SnapPlayheads
    /\ selectedLayerId = NoId
    /\ activeTool = "SELECTION"
    /\ tracks = InitTracks
    /\ snappingEnabled \in BOOLEAN
    /\ draggingId = NoId
    /\ dragMode = "none"
    /\ drag = NoDrag
    /\ contextMenu = NoId
    /\ last = Other
    /\ steps = 0
    /\ chat = NoChat
    /\ cut = NoCut
    /\ overlay = NoOverlay
    /\ media = NoMedia

NextSnap ==
    \E target \in SnapTargets, k \in 0..MaxSnapLayers, zoom \in SnapZooms :
        Snap(target, k, zoom)

SpecSnap == InitSnap /\ [][NextSnap]_vars

\* the candidates in the order getSnapTime meets them: the playhead, then the
\* start and the end of every segment other than segment k
RECURSIVE CandidatesFrom(_, _)
CandidatesFrom(n, k) ==
    IF n > Len(layers) THEN <<>>
    ELSE IF n = k THEN CandidatesFrom(n + 1, k)
         ELSE <<layers[n].start, layers[n].start + layers[n].duration>>
                \o CandidatesFrom(n + 1, k)

SnapCandidates(k) == <<currentTime>> \o CandidatesFrom(1, k)

\* what the claim prescribes for a call that was made with snapping enabled
SnapsToClosest ==
    LET cands == SnapCandidates(last.index)
        threshold == (SNAP_THRESHOLD_PX * TicksPerSecond) \div last.zoom
        dist(m) == Abs(last.target - cands[m])
        within == {m \in DOMAIN cands : dist(m) < threshold}
    IN  IF within = {} THEN last.value = last.target
        ELSE \E m \in within :
                /\ \A o \in within : dist(m) <= dist(o)
                /\ \A o \in within : dist(o) = dist(m) => m <= o
                /\ last.value = cands[m]

(* C15: with snapping enabled getSnapTime(target) returns the candidate     *)
(* closest to target among the playhead and the start and end of every      *)
(* other segment if it lies within 10 px / zoom seconds, the first          *)
(* encountered among equally close ones, and target itself if no candidate  *)
(* is within the threshold; playhead 5.0 s, zoom 50 px/s, target 5.15 s     *)
(* with no closer clip edge yields 5.0 s.                                   *)
C15_SnapClosest ==
    (last.op = "snap" /\ snappingEnabled) =>
        /\ SnapsToClosest
        /\ (/\ currentTime = 500
            /\ last.zoom = 50
            /\ last.target = 515
            /\ \A m \in DOMAIN SnapCandidates(last.index) :
                    Abs(515 - SnapCandidates(last.index)[m]) >= 15) => last.value = 500

\* the same statement for timelines on which the ids are distinct
C15_SnapClosestDistinctIds ==
    (/\ last.op = "snap"
     /\ snappingEnabled
     /\ \A i, j \in DOMAIN layers : layers[i].id = layers[j].id => i = j) =>
        SnapsToClosest

-----------------------------------------------------------------------------
(* App.tsx: handleRazor as the onRazor prop, split requests *)

MaxRazorSteps == 5      \* handler invocations in one razor session

SplitTimes == {0, 2, 30, 300, 320}      \* times a split is requested at
AbsentId == <<"layer", 0>>              \* an id no segment carries

\* onRazor(time, layerId) (App.tsx:718-734, Timeline.tsx:16): a split request
RazorRequest(time, layerId, now) ==
    /\ PointerFree
    /\ RazorApplies(layers, time, layerId) =>
            Len(layers) < MaxLayers /\ Len(layerId) < MaxIdLen
    /\ layers' = handleRazor(layers, time, layerId, now)
    /\ selectedLayerId' = IF RazorApplies(layers, time, layerId)
                          THEN layerId \o <<"split", now>>
                          ELSE selectedLayerId
    /\ last' = Record("split", FindIndex(layers, layerId), layerId, time,
                      IF RazorApplies(layers, time, layerId) THEN "split" ELSE "none")
    /\ UNCHANGED <<currentTime, activeTool, contextMenu, chat, cut>>
    /\ UNCHANGED <<overlay, media>>
    /\ TimelineUnchanged

NextRazor ==
    \/ Step(MaxRazorSteps) /\ \E file \in ProjectFiles : LoadProject(file)
    \/ Step(MaxRazorSteps) /\ \E now \in ClockValues, dur \in VideoDurations :
                                    ImportVideo(now, dur)
    \/ Step(MaxRazorSteps) /\ \E x \in SeekXs \cup RazorXs : Seek(x)
    \/ Step(MaxRazorSteps) /\ \E t \in Tools : SetTool(t)
    \/ Step(MaxRazorSteps) /\ \E i \in 1..MaxLayers, x \in SeekXs \cup RazorXs,
                                  now \in ClockValues :
                                    LayerMouseDown(i, "MOVE", 0, x, now)
    \/ Step(MaxRazorSteps) /\ MouseUp
    \/ Step(MaxRazorSteps) /\ \E time \in SplitTimes, now \in ClockValues,
                                  id \in {layers[i].id : i \in DOMAIN layers} \cup {AbsentId} :
                                    RazorRequest(time, id, now)

SpecRazor == Init /\ [][NextRazor]_vars

\* the segment a step's split was aimed at does not contain the time strictly
\* inside its span, or there is no such segment
SplitOutside ==
    \/ last'.index = 0
    \/ last'.time <= layers[last'.index].start
    \/ last'.time >= layers[last'.index].start + layers[last'.index].duration

(* C16: a split request whose time is not strictly inside the target        *)
(* segment's span, or whose segment id is absent, leaves the segment list   *)
(* and the selection exactly as before; a razor click issues the split only *)
(* when the snapped click time is strictly inside the clicked span.         *)
C16_SplitOutsideIsNoOp ==
    [][(/\ steps' = steps + 1
        /\ last'.op \in {"split", "razor"}
        /\ SplitOutside) =>
            /\ layers' = layers
            /\ selectedLayerId' = selectedLayerId
            /\ last'.done = "none"]_vars

\* a razor click on a segment snapped to a time that is not strictly inside
\* the segment's span
C16_Witness ==
    /\ last.op = "razor"
    /\ last.done = "none"
    /\ last.index # 0
    /\ last.index \in DOMAIN layers
    /\ \/ last.time <= layers[last.index].start
       \/ last.time >= layers[last.index].start + layers[last.index].duration

-----------------------------------------------------------------------------
(* App.tsx: handleAIChat *)

MaxChatSteps == 5       \* handler invocations in one chat session
AIGraphicDuration == 400    \* 4 s

\* the tool calls a response to a styling request carries
ToolCallLists ==
    { <<>>, <<"create_motion_graphic">>, <<"apply_cinematic_grade">>,
      <<"create_motion_graphic", "apply_cinematic_grade">> }

\* handleAIChat up to its await (App.tsx:747-751): the render's state is
\* closed over; the submit button is disabled while isProcessing
SendChat ==
    /\ PointerFree
    /\ ~ chat.isProcessing
    /\ chat' = [isProcessing |-> TRUE, layers |-> layers, currentTime |-> currentTime,
                file |-> media.file, duration |-> media.duration]
    /\ last' = Other
    /\ UNCHANGED <<layers, selectedLayerId, currentTime, activeTool, contextMenu, cut>>
    /\ UNCHANGED <<overlay, media>>
    /\ TimelineUnchanged

\* the pacing branch of analyzeVideoForCuts (part_000:270-311), which the call
\* of handleAIChat reaches because it passes the pace where the mode is
\* expected (App.tsx:767): cutCount scenes, 80% of each kept, laid end to end
minCuts == 3
RandomCuts == {0}       \* Math.floor(Math.random() * 3) of the sessions followed
SimulatedCuts(duration, cutCount, now) ==
    [i \in 1..cutCount |->
        [NewLayer(<<"seg", now, i - 1>>, "video", 0,
                  (i - 1) * ((duration * 4) \div (cutCount * 5)),
                  (duration * 4) \div (cutCount * 5))
            EXCEPT !.srcStartTime = (i - 1) * (duration \div cutCount)]]

\* newLayers.filter(l => l.track !== 0) (App.tsx:771)
RECURSIVE FilterOutTrackZero(_)
FilterOutTrackZero(ls) ==
    IF ls = <<>> THEN <<>>
    ELSE IF Head(ls).track # 0 THEN <<Head(ls)>> \o FilterOutTrackZero(Tail(ls))
         ELSE FilterOutTrackZero(Tail(ls))

\* the auto_cut_video branch of the tool loop (App.tsx:763-778)
AutoCut(newLayers, now) ==
    IF chat.file
    THEN FilterOutTrackZero(newLayers)
            \o SimulatedCuts(chat.duration, minCuts + (CHOOSE r \in RandomCuts : TRUE), now)
    ELSE newLayers

\* the tool loop (App.tsx:761-802) over newLayers
RECURSIVE ExecuteTools(_, _, _, _)
ExecuteTools(calls, newLayers, playhead, now) ==
    IF calls = <<>> THEN newLayers
    ELSE ExecuteTools(Tail(calls),
            IF Head(calls) = "auto_cut_video"
            THEN AutoCut(newLayers, now)
            ELSE IF Head(calls) = "create_motion_graphic"
            THEN Append(newLayers,
                        NewLayer(<<"ai-text", now>>, "text", 2, playhead, AIGraphicDuration))
            ELSE newLayers,
            playhead, now)

\* newLayers of handleAIChat (App.tsx:756, 761-802), built on state.layers of
\* the render that sent the request
ResponseLayers(calls, now) == ExecuteTools(calls, chat.layers, chat.currentTime, now)

\* handleAIChat after its await (App.tsx:753-814)
ReceiveChat(calls, now) ==
    /\ chat.isProcessing
    /\ Len(ResponseLayers(calls, now)) <= MaxLayers
    /\ layers' = ResponseLayers(calls, now)
    /\ chat' = NoChat
    /\ last' = Record("chatResponse", 0, NoId, 0, "applied")
    /\ UNCHANGED <<selectedLayerId, currentTime, activeTool, contextMenu, cut>>
    /\ UNCHANGED <<overlay, media>>
    /\ TimelineUnchanged

\* the catch branch of handleAIChat (App.tsx:816-819)
ChatFailed ==
    /\ chat.isProcessing
    /\ chat' = NoChat
    /\ last' = Record("chatResponse", 0, NoId, 0, "failed")
    /\ UNCHANGED <<layers, selectedLayerId, currentTime, activeTool, contextMenu, cut>>
    /\ UNCHANGED <<overlay, media>>
    /\ TimelineUnchanged

NextChat ==
    \/ Step(MaxChatSteps) /\ \E now \in ClockValues, dur \in VideoDurations : ImportVideo(now, dur)
    \/ Step(MaxChatSteps) /\ \E now \in ClockValues : AddText(now)
    \/ Step(MaxChatSteps) /\ \E x \in SeekXs \cup RazorXs : Seek(x)
    \/ Step(MaxChatSteps) /\ \E t \in Tools : SetTool(t)
    \/ Step(MaxChatSteps) /\ DeleteKey
    \/ Step(MaxChatSteps) /\ \E i \in 1..MaxLayers, mode \in Modes,
                                 x \in SeekXs \cup RazorXs, now \in ClockValues :
                                    LayerMouseDown(i, mode, 0, x, now)
    \/ Step(MaxChatSteps) /\ \E target \in RawTargets, dy \in DragDYs :
                                    MouseMove(TimeToPx(target - DraggedEdge(drag)), dy)
    \/ Step(MaxChatSteps) /\ MouseUp
    \/ Step(MaxChatSteps) /\ SendChat
    \/ Step(MaxChatSteps) /\ \E calls \in ToolCallLists, now \in ClockValues :
                                    ReceiveChat(calls, now)
    \/ Step(MaxChatSteps) /\ ChatFailed

SpecChat == Init /\ [][NextChat]_vars

(* C17: when handleAIChat applies the response, with or without tool calls, *)
(* every segment added, moved, trimmed, split or deleted by the user while  *)
(* the request was in flight keeps its edited state: the segments on the    *)
(* timeline at that moment stay as they are and the response only appends   *)
(* its own.                                                                 *)
C17_ResponseKeepsEdits ==
    [][(steps' = steps + 1 /\ last'.op = "chatResponse") =>
        /\ Len(layers') >= Len(layers)
        /\ SubSeq(layers', 1, Len(layers)) = layers]_vars

-----------------------------------------------------------------------------
(* Timeline.tsx: a drag gesture as a function of the pointer position *)

\* the step is a pointer-move of a drag gesture
PointerMoveStep == steps' = steps + 1 /\ last'.op = "mousemove"

\* the states a committed pointer-move whose dragged edge aims at t gives a
\* segment captured as c at mouse-down (any vertical position for a move)
CommittedAt(c, d, t) ==
    IF d.mode = "MOVE"
    THEN {Merge(c, MoveUpdates(d, t - d.initStart, dy, DOMAIN tracks, snappingEnabled)) :
            dy \in DragDYs}
    ELSE IF d.mode = "RESIZE_R"
    THEN {Merge(c, ResizeRightUpdates(d, t - (d.initStart + d.initDuration),
                                      snappingEnabled))}
    ELSE {Merge(c, ResizeLeftUpdates(d, t))}

\* the states the gesture gives the segment when the pointer-move at that
\* position is the only one of the gesture
PositionState(c, d, t) ==
    IF d.mode = "RESIZE_L" /\ ResizeLeftRefused(d, t) THEN {c} ELSE CommittedAt(c, d, t)

-----------------------------------------------------------------------------
(* Timeline.tsx: the end of a drag gesture *)

\* the step is the mouse-up of a drag gesture
MouseUpStep == steps' = steps + 1 /\ last'.op = "mouseup"

(* C21: a drag gesture ends on mouse-up: draggingId and dragMode return to  *)
(* null and the timeline keeps what the drag committed; a pointer-move      *)
(* changes the timeline only while a gesture is in progress, and a gesture  *)
(* is in progress only from a mouse-down on a segment to the next mouse-up. *)
C21_MouseUpEndsGesture ==
    [][/\ MouseUpStep =>
            /\ draggingId' = NoId
            /\ dragMode' = "none"
            /\ layers' = layers
       /\ PointerMoveStep => draggingId # NoId /\ draggingId = drag.id
       /\ (draggingId = NoId /\ layers' # layers) => last'.op # "mousemove"
       /\ (draggingId = NoId /\ draggingId' # NoId) =>
            /\ last'.op = "mousedown"
            /\ last'.index \in DOMAIN layers
            /\ draggingId' = layers[last'.index].id]_vars

\* a resize-right gesture has ended and the segment keeps the duration the
\* drag committed (the floor, which only a drag produces)
C21_Witness ==
    /\ last.op = "mouseup"
    /\ last.done = "RESIZE_R"
    /\ draggingId = NoId
    /\ dragMode = "none"
    /\ \E i \in DOMAIN layers : layers[i].id = last.id /\ layers[i].duration = MinFrame

-----------------------------------------------------------------------------
(* Sidebar.tsx and App.tsx: the operations that write keyframes *)

MaxKeySteps == 4        \* handler invocations in one keyframing session
KeyframeEpsilon == 5    \* 0.05 s: a keyframe this near the write is replaced
PresetDuration == 80    \* 0.8 s between the two keyframes of a motion preset
MaxKeyValue == 10000    \* largest value a keyframe write is followed to

WrittenValues == {20}             \* values typed into a row or picked for a keyframe
OverlayDeltas == {-20, 20}        \* pointer deltas (pixels) of a monitor drag
PresetTypes == {"zoomIn", "slideIn", "typewriter", "wipe", "twist"}

\* animations.filter(k => !props.includes(k.property) || Math.abs(k.time - localTime) > 0.05)
\* with the keyframes left where they are
FilterNearKeepsAll(ks, props, localTime) == ks

\* animations.filter(k => !props.includes(k.property) || Math.abs(k.time - localTime) > 0.05)
\* (Sidebar.tsx:80, 120; App.tsx:853-855, 869)
RECURSIVE FilterNear(_, _, _)
FilterNear(ks, props, localTime) ==
    IF ks = <<>> THEN <<>>
    ELSE IF Head(ks).property \notin props \/ Abs(Head(ks).time - localTime) > KeyframeEpsilon
         THEN <<Head(ks)>> \o FilterNear(Tail(ks), props, localTime)
         ELSE FilterNear(Tail(ks), props, localTime)

\* selectedLayer.animations.some(k => k.property === propPath)
HasKeyframes(layer, propPath) ==
    \E n \in DOMAIN layer.animations : layer.animations[n].property = propPath

Keyframe(propPath, time, value, easing) ==
    [property |-> propPath, time |-> time, value |-> value, easing |-> easing]

\* history record of a keyframe write: the segment, the properties written,
\* the local time and how many stored keyframes the filter dropped
KeyframeWrite(op, i, props, localTime, before, kept) ==
    [op |-> op, index |-> i, properties |-> props, time |-> localTime,
     replaced |-> Len(before) - Len(kept)]

\* the static update a row passes (Sidebar.tsx:473-504): only the Opacity row
\* names a field of the segment
StaticUpdate(propPath, v) ==
    IF propPath = "opacity" THEN [opacity |-> v] ELSE [label |-> ""]

\* handlePropertyChange (Sidebar.tsx:71-94), from the slider of the row of propPath
PropertyChange(propPath, v) ==
    /\ PointerFree
    /\ FindIndex(layers, selectedLayerId) # 0
    /\ LET i == FindIndex(layers, selectedLayerId)
           sel == layers[i]
           localTime == currentTime - sel.start
           kept == FilterNear(sel.animations, {propPath}, localTime)
       IN  IF HasKeyframes(sel, propPath)
           THEN /\ layers' = updateLayer(layers, sel.id,
                        [animations |->
                            Append(kept, Keyframe(propPath, localTime, v, "linear"))])
                /\ last' = KeyframeWrite("keyframeWrite", i, {propPath}, localTime,
                                         sel.animations, kept)
           ELSE /\ layers' = updateLayer(layers, sel.id, StaticUpdate(propPath, v))
                /\ last' = Other
    /\ UNCHANGED <<selectedLayerId, currentTime, activeTool, contextMenu>>
    /\ TimelineUnchanged
    /\ UNCHANGED <<chat, cut, overlay, media>>

\* addKeyframe (Sidebar.tsx:117-129): the diamond button of an animated row
\* (Sidebar.tsx:211-215), which passes the row's value
AddKeyframe(propPath) ==
    /\ PointerFree
    /\ FindIndex(layers, selectedLayerId) # 0
    /\ LET i == FindIndex(layers, selectedLayerId)
           sel == layers[i]
           localTime == currentTime - sel.start
           kept == FilterNear(sel.animations, {propPath}, localTime)
       IN  /\ HasKeyframes(sel, propPath)
           /\ Whole(RowValue(sel, propPath, currentTime)) <= MaxKeyValue
           /\ layers' = updateLayer(layers, sel.id,
                    [animations |->
                        Append(kept, Keyframe(propPath, localTime,
                                              Whole(RowValue(sel, propPath, currentTime)),
                                              "linear"))])
           /\ last' = KeyframeWrite("keyframeWrite", i, {propPath}, localTime,
                                    sel.animations, kept)
    /\ UNCHANGED <<selectedLayerId, currentTime, activeTool, contextMenu>>
    /\ TimelineUnchanged
    /\ UNCHANGED <<chat, cut, overlay, media>>

\* the addKeys calls of a preset, in order (Sidebar.tsx:148-167): property,
\* start value, end value (opacity in hundredths)
PresetKeys(type) ==
    CASE type = "zoomIn" -> <<<<"transform.scale", 0, 100>>, <<"opacity", 0, 100>>>>
      [] type = "slideIn" -> <<<<"transform.translateY", 100, 0>>, <<"opacity", 0, 100>>>>
      [] type = "typewriter" -> <<<<"text.progress", 0, 100>>>>
      [] type = "wipe" -> <<<<"effects.wipe", 0, 100>>>>
      [] type = "twist" -> <<<<"transform.skewX", 45, 0>>, <<"transform.scale", 80, 100>>,
                             <<"effects.blur", 10, 0>>, <<"opacity", 0, 100>>>>

\* addKeys (Sidebar.tsx:142-147) applied for each entry
RECURSIVE AddKeys(_, _, _)
AddKeys(newKeys, entries, startTime) ==
    IF entries = <<>> THEN newKeys
    ELSE LET e == Head(entries)
         IN  AddKeys(FilterOutProperty(newKeys, e[1])
                        \o <<Keyframe(e[1], startTime, e[2], "bezier"),
                             Keyframe(e[1], startTime + PresetDuration, e[3], "bezier")>>,
                     Tail(entries), startTime)

\* applyMotionPreset (Sidebar.tsx:132-170)
ApplyMotionPreset(type) ==
    /\ PointerFree
    /\ FindIndex(layers, selectedLayerId) # 0
    /\ LET i == FindIndex(layers, selectedLayerId)
           sel == layers[i]
           startTime == currentTime - sel.start
           entries == PresetKeys(type)
           newKeys == AddKeys(sel.animations, entries, startTime)
       IN  /\ layers' = updateLayer(layers, sel.id, [animations |-> newKeys])
           /\ last' = [op |-> "motionPreset", index |-> i,
                       properties |-> {entries[n][1] : n \in DOMAIN entries},
                       time |-> startTime,
                       replaced |-> Len(sel.animations) + 2 * Len(entries) - Len(newKeys)]
    /\ UNCHANGED <<selectedLayerId, currentTime, activeTool, contextMenu>>
    /\ TimelineUnchanged
    /\ UNCHANGED <<chat, cut, overlay, media>>

\* a segment is drawn on the program monitor (App.tsx:900-902)
OnMonitor(l) == l.track > 0 /\ currentTime >= l.start /\ currentTime <= l.start + l.duration

\* handleOverlayMouseDown (App.tsx:825-896) up to the registration of its
\* listeners: the gizmo handle ("resize") is drawn on the selected segment only
OverlayMouseDown(i, type) ==
    /\ PointerFree
    /\ i \in DOMAIN layers
    /\ OnMonitor(layers[i])
    /\ type = "resize" => selectedLayerId = layers[i].id
    /\ selectedLayerId' = layers[i].id
    /\ overlay' = [listening |-> TRUE, type |-> type, layer |-> layers[i],
                   currentTime |-> currentTime]
    /\ last' = Other
    /\ UNCHANGED <<layers, currentTime, activeTool, contextMenu>>
    /\ TimelineUnchanged
    /\ UNCHANGED <<chat, cut, media>>

\* the effective value captured at mouse-down (App.tsx:836-838)
OverlayCurrent(prop) ==
    Whole(getInterpolatedValue(overlay.layer, prop, StaticValue(overlay.layer, prop),
                               overlay.currentTime))

\* window mousemove listener of the monitor drag (App.tsx:842-886)
OverlayMouseMove(deltaX, deltaY) ==
    /\ overlay.listening
    /\ LET layer == overlay.layer
           i == FindIndex(layers, layer.id)
           localTime == overlay.currentTime - layer.start
           newX == OverlayCurrent("transform.translateX") + deltaX
           newY == OverlayCurrent("transform.translateY") + deltaY
           newScale == Max(0, OverlayCurrent("transform.scale") + (deltaX \div 2))
           moved == {"transform.translateX", "transform.translateY"}
           keptMove == FilterNear(layer.animations, moved, localTime)
           keptScale == FilterNear(layer.animations, {"transform.scale"}, localTime)
       IN  IF overlay.type = "move"
           THEN IF \E p \in moved : HasKeyframes(layer, p)
                THEN /\ layers' = updateLayer(layers, layer.id,
                            [animations |-> keptMove \o
                                <<Keyframe("transform.translateX", localTime, newX, "linear"),
                                  Keyframe("transform.translateY", localTime, newY, "linear")>>])
                     /\ last' = KeyframeWrite("keyframeWrite", i, moved, localTime,
                                              layer.animations, keptMove)
                ELSE /\ layers' = updateLayer(layers, layer.id,
                            [transform |-> [layer.transform EXCEPT !.translateX = newX,
                                                                   !.translateY = newY]])
                     /\ last' = Other
           ELSE IF HasKeyframes(layer, "transform.scale")
                THEN /\ layers' = updateLayer(layers, layer.id,
                            [animations |-> Append(keptScale,
                                Keyframe("transform.scale", localTime, newScale, "linear"))])
                     /\ last' = KeyframeWrite("keyframeWrite", i, {"transform.scale"},
                                              localTime, layer.animations, keptScale)
                ELSE /\ layers' = updateLayer(layers, layer.id,
                            [transform |-> [layer.transform EXCEPT !.scale = newScale]])
                     /\ last' = Other
    /\ UNCHANGED <<selectedLayerId, currentTime, activeTool, contextMenu>>
    /\ TimelineUnchanged
    /\ UNCHANGED <<chat, cut, overlay, media>>

\* window mouseup listener of the monitor drag (App.tsx:888-891)
OverlayMouseUp ==
    /\ overlay.listening
    /\ overlay' = NoOverlay
    /\ last' = Other
    /\ UNCHANGED <<layers, selectedLayerId, currentTime, activeTool, contextMenu>>
    /\ TimelineUnchanged
    /\ UNCHANGED <<chat, cut, media>>

\* a keyframing session starts from a timeline of the animation sessions with
\* one of its segments selected
InitKeys ==
    /\ \E a \in AnimKeyframes :
        layers = << NewLayer(<<"layer", 1>>, "video", 0, 0, 300),
                    [NewLayer(<<"txt", 1>>, "text", 2, 2, DefaultClipDuration)
                        EXCEPT !.animations = a] >>
    /\ selectedLayerId \in {<<"layer", 1>>, <<"txt", 1>>}
    /\ currentTime = 0
    /\ activeTool = "SELECTION"
    /\ tracks = InitTracks
    /\ snappingEnabled = TRUE
    /\ draggingId = NoId
    /\ dragMode = "none"
    /\ drag = NoDrag
    /\ contextMenu = NoId
    /\ last = Other
    /\ steps = 0
    /\ chat = NoChat
    /\ cut = NoCut
    /\ overlay = NoOverlay
    /\ media = NoMedia

NextKeys ==
    \/ Step(MaxKeySteps) /\ \E x \in SeekXs \cup RazorXs : Seek(x)
    \/ Step(MaxKeySteps) /\ \E p \in PropertyRows : ToggleAnimation(p)
    \/ Step(MaxKeySteps) /\ \E p \in PropertyRows, v \in WrittenValues : PropertyChange(p, v)
    \/ Step(MaxKeySteps) /\ \E p \in PropertyRows : AddKeyframe(p)
    \/ Step(MaxKeySteps) /\ \E type \in PresetTypes : ApplyMotionPreset(type)
    \/ Step(MaxKeySteps) /\ \E i \in 1..MaxLayers, type \in {"move", "resize"} :
                                OverlayMouseDown(i, type)
    \/ Step(MaxKeySteps) /\ \E dx \in OverlayDeltas, dy \in OverlayDeltas :
                                OverlayMouseMove(dx, dy)
    \/ Step(MaxKeySteps) /\ OverlayMouseUp

SpecKeys == InitKeys /\ [][NextKeys]_vars


\* no two keyframes of a segment have the same property and the same time
OneKeyframePerTime(layer) ==
    \A m, n \in DOMAIN layer.animations :
        (/\ m # n
         /\ layer.animations[m].property = layer.animations[n].property)
            => layer.animations[m].time # layer.animations[n].time

\* the times of the keyframes of a property within the epsilon of t
TimesNear(layer, prop, t) ==
    {layer.animations[n].time : n \in
        {m \in DOMAIN layer.animations :
            /\ layer.animations[m].property = prop
            /\ Abs(layer.animations[m].time - t) <= KeyframeEpsilon}}

\* the properties that have a row, a preset or a monitor handle
AnimatedProperties == PropertyRows \cup {"transform.skewX", "text.progress"}

\* keyframes of the properties the step does not write are as they were
OthersUntouched(i, props) ==
    \A q \in AnimatedProperties \ props :
        FilterByProperty(layers'[i].animations, q) = FilterByProperty(layers[i].animations, q)

\* the step writes keyframes: toggle on, add keyframe, property change or
\* monitor drag of an animated property, motion preset
WriteStep ==
    /\ steps' = steps + 1
    /\ \/ last'.op \in {"keyframeWrite", "motionPreset"}
       \/ ToggleOnStep

WrittenProperties == IF last'.op = "toggleAnimation" THEN {last'.property} ELSE last'.properties
WrittenTime ==
    IF last'.op = "toggleAnimation" THEN currentTime - layers[last'.index].start
    ELSE last'.time

-----------------------------------------------------------------------------
(* App.tsx: the selection across editing and assistant operations *)

MaxAutoSteps == 5       \* handler invocations of one session with the assistant

\* the tool calls a response to a cutting request carries
AutoCallLists ==
    { <<>>, <<"auto_cut_video">>, <<"auto_cut_video", "create_motion_graphic">> }

\* a session that selects, deletes, splits, duplicates, imports, loads projects
\* and asks the assistant to cut
NextAuto ==
    \/ Step(MaxAutoSteps) /\ \E now \in ClockValues, dur \in VideoDurations : ImportVideo(now, dur)
    \/ Step(MaxAutoSteps) /\ \E now \in ClockValues : ImportImage(now)
    \/ Step(MaxAutoSteps) /\ \E now \in ClockValues : AddText(now)
    \/ Step(MaxAutoSteps) /\ \E t \in Tools : SetTool(t)
    \/ Step(MaxAutoSteps) /\ DeleteKey
    \/ Step(MaxAutoSteps) /\ \E file \in ProjectFiles : LoadProject(file)
    \/ Step(MaxAutoSteps) /\ \E i \in 1..MaxLayers, button \in {0, 2}, x \in RazorXs,
                                 now \in ClockValues :
                                    LayerMouseDown(i, "MOVE", button, x, now)
    \/ Step(MaxAutoSteps) /\ MouseUp
    \/ Step(MaxAutoSteps) /\ \E now \in ClockValues : ContextDuplicate(now)
    \/ Step(MaxAutoSteps) /\ ContextDelete
    \/ Step(MaxAutoSteps) /\ SendChat
    \/ Step(MaxAutoSteps) /\ \E calls \in AutoCallLists, now \in ClockValues :
                                    ReceiveChat(calls, now)
    \/ Step(MaxAutoSteps) /\ ChatFailed

SpecAuto == Init /\ [][NextAuto]_vars

\* the selection is null or names a segment on the timeline
SelectionOnTimeline(sel, ls) == sel = NoId \/ FindIndex(ls, sel) # 0

(* C23: selectedLayerId is always null or the id of a segment on the        *)
(* timeline, after any sequence of select, delete, split, duplicate,        *)
(* import, project load and AI tool (auto-cut) operations.                  *)
C23_SelectionOnTimeline == SelectionOnTimeline(selectedLayerId, layers)

\* without a response in the step, the selection stays on the timeline
C23_EditsKeepSelection ==
    [][(/\ steps' = steps + 1
        /\ last'.op # "chatResponse"
        /\ SelectionOnTimeline(selectedLayerId, layers))
            => SelectionOnTimeline(selectedLayerId', layers')]_vars

-----------------------------------------------------------------------------
(* App.tsx: splitting a segment that carries keyframes *)

MaxSplitSteps == 4      \* handler invocations of one session that splits animated segments

\* a timeline of the animation sessions is cut with the razor tool or by a
\* split request
NextSplit ==
    \/ Step(MaxSplitSteps) /\ \E x \in SeekXs \cup RazorXs : Seek(x)
    \/ Step(MaxSplitSteps) /\ \E t \in Tools : SetTool(t)
    \/ Step(MaxSplitSteps) /\ \E i \in 1..MaxLayers, x \in SeekXs \cup RazorXs,
                                  now \in ClockValues :
                                    LayerMouseDown(i, "MOVE", 0, x, now)
    \/ Step(MaxSplitSteps) /\ MouseUp
    \/ Step(MaxSplitSteps) /\ \E time \in SplitTimes, now \in ClockValues,
                                  id \in {layers[i].id : i \in DOMAIN layers} :
                                    RazorRequest(time, id, now)

SpecSplit == InitAnim /\ [][NextSplit]_vars

\* the step splits a segment in two
SplitDone == steps' = steps + 1 /\ last'.op \in {"razor", "split"} /\ last'.done = "split"

\* absolute times around the cut, inside the span of the segment
TimesAround(l, time) ==
    {q \in {l.start, time - 2, time - 1, time, time + 1, time + 2, l.start + l.duration} :
        q >= l.start /\ q <= l.start + l.duration}

\* the part that contains q: the first part before the cut, the second from it
PartAt(first, second, q) == IF q < second.start THEN first ELSE second

(* C24: splitting a segment that carries keyframes does not change what is  *)
(* rendered: for every animated property and every absolute time q inside   *)
(* the original span, the part that contains q evaluates to the value the   *)
(* original segment evaluated to at q.                                      *)
C24_SplitKeepsRenderedValue ==
    [][SplitDone =>
        LET i == FindIndex(layers, last'.id)
            original == layers[i]
            first == layers'[i]
            second == layers'[Len(layers')]
        IN  \A p \in PropertyRows, q \in TimesAround(original, last'.time) :
                HasKeyframes(original, p) =>
                    FracEq(RenderedValue(PartAt(first, second, q), p, q),
                           RenderedValue(original, p, q))]_vars

\* the first part keeps the rendered value of every property at every time
C24_FirstPartKeepsRenderedValue ==
    [][SplitDone =>
        LET i == FindIndex(layers, last'.id)
        IN  \A p \in PropertyRows, q \in TimesAround(layers[i], last'.time) :
                q < last'.time =>
                    FracEq(RenderedValue(layers'[i], p, q), RenderedValue(layers[i], p, q))]_vars

-----------------------------------------------------------------------------
(* Timeline.tsx and App.tsx: bounds on duration and source offset *)

\* the step is a committed pointer-move of a resize gesture
CommittedResizeStep ==
    /\ PointerMoveStep
    /\ drag.mode \in {"RESIZE_L", "RESIZE_R"}
    /\ last'.done = "commit"

(* C26: every segment has duration > 0 in every state reached by move,      *)
(* resize-left, resize-right, split and duplicate from segments of positive *)
(* duration, and every committed resize-left or resize-right leaves the     *)
(* resized segment's duration at or above the floor of 0.04 s.              *)
C26_DurationPositive ==
    /\ [](\A i \in DOMAIN layers : layers[i].duration > 0)
    /\ [][CommittedResizeStep =>
            \A i \in DOMAIN layers' :
                layers'[i].id = drag.id => layers'[i].duration >= MinFrame]_vars

\* a resize has pushed a segment's duration down to the floor, and a split
\* has left a part shorter than the floor on the timeline
C26_Witness ==
    /\ last.op = "mousemove"
    /\ last.done = "commit"
    /\ drag.mode \in {"RESIZE_L", "RESIZE_R"}
    /\ \E i \in DOMAIN layers : layers[i].id = drag.id /\ layers[i].duration = MinFrame
    /\ \E i \in DOMAIN layers : layers[i].duration < MinFrame


(* C27: every segment has srcStartTime >= 0 in every reachable state; a     *)
(* resize-left whose result would make it negative is refused and leaves    *)
(* start, duration and srcStartTime of every segment as they were before    *)
(* that pointer-move.                                                       *)
C27_SourceOffsetNonNegative ==
    /\ [](\A i \in DOMAIN layers : layers[i].srcStartTime >= 0)
    /\ [][(PointerMoveStep /\ last'.done = "refused") =>
            /\ drag.mode = "RESIZE_L"
            /\ drag.initSrcStart + (last'.time - drag.initStart) < 0
            /\ layers' = layers]_vars

\* a resize-left aimed left of the captured start of a segment whose source
\* offset is smaller than the distance has been refused
C27_Witness ==
    /\ last.op = "mousemove"
    /\ last.done = "refused"
    /\ drag.mode = "RESIZE_L"
    /\ last.time < drag.initStart
    /\ \E i \in DOMAIN layers :
            /\ layers[i].id = drag.id
            /\ layers[i].srcStartTime < drag.initStart - last.time

-----------------------------------------------------------------------------
(* Sidebar.tsx: switching the animation of a property off *)

MaxToggleSteps == 5     \* handler invocations of one session that toggles animation

\* a project with one animated title, saved by an earlier session, is open;
\* titles are added, selected and their properties toggled
InitToggle ==
    /\ \E a \in AnimKeyframes :
        layers = << [NewLayer(<<"txt", 0>>, "text", 2, 2, DefaultClipDuration)
                        EXCEPT !.animations = a] >>
    /\ selectedLayerId \in {NoId, <<"txt", 0>>}
    /\ currentTime = 0
    /\ activeTool = "SELECTION"
    /\ tracks = InitTracks
    /\ snappingEnabled = TRUE
    /\ draggingId = NoId
    /\ dragMode = "none"
    /\ drag = NoDrag
    /\ contextMenu = NoId
    /\ last = Other
    /\ steps = 0
    /\ chat = NoChat
    /\ cut = NoCut
    /\ overlay = NoOverlay
    /\ media = NoMedia

NextToggle ==
    \/ Step(MaxToggleSteps) /\ \E now \in ClockValues : AddText(now)
    \/ Step(MaxToggleSteps) /\ \E x \in SeekXs \cup RazorXs : Seek(x)
    \/ Step(MaxToggleSteps) /\ \E i \in 1..MaxLayers, x \in SeekXs \cup RazorXs :
                                    LayerMouseDown(i, "MOVE", 0, x, 1)
    \/ Step(MaxToggleSteps) /\ MouseUp
    \/ Step(MaxToggleSteps) /\ \E p \in PropertyRows : ToggleAnimation(p)

SpecToggle == InitToggle /\ [][NextToggle]_vars

\* the step is a click on the animation toggle of a property with keyframes
ToggleOffStep == steps' = steps + 1 /\ last'.op = "toggleAnimation" /\ ~ last'.on

\* local times at which the property is evaluated after the toggle
ToggleQueryTimes == {-2, 0, 1, 2, 28}

\* what switching property p of segment i off must do
ToggledOff(i, p) ==
    /\ FilterByProperty(layers'[i].animations, p) = <<>>
    /\ \A q \in AnimatedProperties \ {p} :
            FilterByProperty(layers'[i].animations, q)
                = FilterByProperty(layers[i].animations, q)
    /\ \A t \in ToggleQueryTimes :
            RenderedValue(layers'[i], p, layers'[i].start + t)
                = <<StaticValue(layers[i], p), 1>>

(* C28: toggling animation off for a property deletes every keyframe of     *)
(* that property on the selected segment and no keyframe of any other       *)
(* property or segment; afterwards evaluate for that property returns the   *)
(* segment's static base value at every query time.                         *)
C28_ToggleOffClearsProperty ==
    [][ToggleOffStep =>
        /\ ToggledOff(last'.index, last'.property)
        /\ \A j \in DOMAIN layers \ {last'.index} :
                layers'[j].animations = layers[j].animations]_vars

\* the same when no other segment carries the id of the selected one
C28_ToggleOffClearsPropertyDistinctIds ==
    [][ToggleOffStep =>
        /\ ToggledOff(last'.index, last'.property)
        /\ \A j \in DOMAIN layers \ {last'.index} :
                layers[j].id # layers[last'.index].id =>
                    layers'[j].animations = layers[j].animations]_vars

-----------------------------------------------------------------------------
(* Timeline.tsx: the frame of a resize-right drag *)

\* the step is a pointer-move of a right-edge resize gesture
ResizeRightStep == PointerMoveStep /\ drag.mode = "RESIZE_R"

\* the duration a resize-right aimed at the raw end rawEnd gives: the snapped
\* end minus the initial start, at least the floor
ResizedDuration(rawEnd) ==
    Max(MinFrame,
        getSnapTime(rawEnd, drag.id, drag.layers, drag.currentTime, snappingEnabled)
            - drag.initStart)

\* the timeline after the step is the one before it with the duration of
\* segment k replaced
OnlyDurationOf(k) ==
    layers' = [layers EXCEPT ![k].duration = ResizedDuration(last'.time)]

\* the segments that carry the id of the dragged segment
Dragged == {k \in DOMAIN layers : layers[k].id = drag.id}

(* C30: a resize-right drag changes only the dragged segment's duration:    *)
(* its start, srcStartTime, track and keyframes and all other segments are  *)
(* unchanged by every pointer-move of the gesture, and the new duration is  *)
(* the snapped end minus the initial start, clamped to at least 0.04 s.     *)
C30_ResizeRightChangesOnlyDuration ==
    [][ResizeRightStep => \E k \in Dragged : OnlyDurationOf(k)]_vars

\* the same when the dragged segment is the only one with its id
C30_ResizeRightChangesOnlyDurationDistinctIds ==
    [][(ResizeRightStep /\ Cardinality(Dragged) = 1) =>
            \E k \in Dragged : OnlyDurationOf(k)]_vars

=============================================================================
